---------------------------- MODULE Spec2Model ----------------------------
(***************************************************************************)
(* Model of the profile pipeline of the crochet pattern generator          *)
(* (src/wasm/crochet-core): StitchCountSolver (stitch_count.rs),           *)
(* RowComposer and pattern validation (generator.rs) and the placement     *)
(* annealer (optimization.rs).                                             *)
(*                                                                         *)
(* Units.  A radius is an integer number of tenths of a centimetre, a      *)
(* gauge an integer number of stitches per centimetre.  The circumference  *)
(* count round(2*PI*r*g) is computed with PI = 355/113, which gives the    *)
(* same rounded value as the f64 computation for every radius up to 60 cm  *)
(* and every gauge up to 59.  All stitch counts of the model stay far      *)
(* below the width of usize, so the arithmetic is exact.                   *)
(***************************************************************************)
EXTENDS Integers, Sequences, FiniteSets

VARIABLES
    pc,             \* position of the call being modelled
    row_radii,      \* generator.rs:123 row_radii / stitch_count.rs radii (tenths of cm)
    gauge,          \* config.yarn.gauge_stitches_per_cm
    stitch_counts,  \* result of calculate_stitch_counts
    prev_stitches,  \* generate_row_pattern argument
    total_stitches, \* generate_row_pattern argument
    pattern,        \* result of generate_row_pattern
    result,         \* result of generate_pattern
    input_rows,     \* optimization.rs:12 rows argument of optimize_stitch_placement
    rng_stream,     \* what generators seeded with 42 have drawn so far
    outputs,        \* the values returned by the calls of optimize_stitch_placement
    indices,        \* optimization.rs:172 indices argument of index_energy
    pattern_len,    \* optimization.rs:172 pattern_length argument of index_energy
    energies,       \* index_energy of indices and of the evenly spaced arrangement
    mesh,           \* bindings.rs:226 mesh argument of apply_topological_cut
    seam,           \* bindings.rs:226 seam argument of apply_topological_cut
    cut_mesh,       \* the MeshData returned by apply_topological_cut
    executed,       \* bindings.rs:56 the stages generate_pattern has called, in order
    returned_error, \* the stages that returned an error
    cut_applied,    \* bindings.rs:112 whether apply_topological_cut was called
    vertex_curvature, \* Vertex.curvature of the mesh vertices (hundredths)
    stitch_grid,    \* bindings.rs:147 stitch_grid
    mesh_pattern,   \* bindings.rs:173 pattern / bindings.rs:192 final_pattern
    mesh_result,    \* the value generate_pattern of bindings.rs returns
    curve,          \* generator.rs:99 curve
    config,         \* generator.rs:100 / crochet-wasm lib.rs:62 config
    core_result,    \* the value generate_pattern of crochet-core returns
    boundary_result, \* the value validate_config of crochet-wasm returns
    half_edge,      \* seam_placement.rs:45 half_edge
    seam_result,    \* the outcome of SeamPlacer::place_seam
    walk,           \* analysis.rs:36-53 the one-ring walk around one vertex
    anneal_state,   \* optimization.rs:112-165 the locals of the annealing loop
    sampling,       \* sampling.rs:79 the call of sample_profile_curve
    row_mapping     \* row_mapping.rs:4 the call of map_samples_to_rows

annealVars == <<input_rows, rng_stream, outputs>>

energyVars == <<indices, pattern_len, energies>>

cutVars == <<mesh, seam, cut_mesh>>

pipeVars == <<executed, returned_error, cut_applied, vertex_curvature,
              stitch_grid, mesh_pattern, mesh_result>>

validateVars == <<curve, config, core_result, boundary_result>>

seamVars == <<half_edge, seam_result, walk>>

coreVars == <<anneal_state, sampling, row_mapping>>

meshVars == <<cutVars, pipeVars, validateVars, seamVars, coreVars>>

vars == <<pc, row_radii, gauge, stitch_counts, prev_stitches, total_stitches,
          pattern, result, annealVars, energyVars, meshVars>>

\* the variables of the mesh specifications, where these are not running
CutIdle ==
    /\ mesh = <<>>
    /\ seam = <<>>
    /\ cut_mesh = <<>>

PipeIdle ==
    /\ executed = <<>>
    /\ returned_error = <<>>
    /\ cut_applied = FALSE
    /\ vertex_curvature = <<>>
    /\ stitch_grid = <<>>
    /\ mesh_pattern = <<>>
    /\ mesh_result = <<>>

ValidateIdle ==
    /\ curve = <<>>
    /\ config = <<>>
    /\ core_result = <<>>
    /\ boundary_result = <<>>

SeamIdle ==
    /\ half_edge = <<>>
    /\ seam_result = <<>>
    /\ walk = <<>>

CoreIdle ==
    /\ anneal_state = <<>>
    /\ sampling = <<>>
    /\ row_mapping = <<>>

MeshIdle == CutIdle /\ PipeIdle /\ ValidateIdle /\ SeamIdle /\ CoreIdle

\* the variables of the annealer and energy specifications, where these
\* are not running
AnnealIdle ==
    /\ MeshIdle
    /\ input_rows = <<>>
    /\ rng_stream = <<>>
    /\ outputs = <<>>
    /\ indices = <<>>
    /\ pattern_len = 0
    /\ energies = <<>>

---------------------------------------------------------------------------
(* Bounds of the model *)

\* StitchCountSolver specification: rows, largest radius (tenths of cm), largest gauge
MaxRows == 3
MaxRadius == 12
MaxGauge == 6

\* RowComposer specification: largest previous-row stitch count
MaxStitches == 18

\* generate_pattern specification: rows, largest radius (tenths of cm),
\* largest gauge, and the annealing iterations explored per row
MaxPatternRows == 2
MaxPatternRadius == 6
MaxPatternGauge == 3
MaxIter == 0

---------------------------------------------------------------------------
(* Arithmetic helpers *)

Max(a, b) == IF a >= b THEN a ELSE b

Min(a, b) == IF a <= b THEN a ELSE b

Abs(a) == IF a >= 0 THEN a ELSE -a

\* f64::round of the non-negative rational num/den (half away from zero)
Round(num, den) == (2 * num + den) \div (2 * den)

\* round(2 * PI * radius * gauge), radius r in tenths of a centimetre
IdealStitches(r, g) == Round(2 * 355 * r * g, 113 * 10)

---------------------------------------------------------------------------
(* StitchCountSolver: stitch_count.rs *)

\* usize::saturating_sub
SaturatingSub(a, b) == IF a >= b THEN a - b ELSE 0

\* mutant of FirstStitches: the circumference count rounded up (ceil) instead
\* of rounded to nearest
FirstStitchesCeil(r, g) ==
    Max((2 * 355 * Max(r, 5) * g + 113 * 10 - 1) \div (113 * 10), 6)

\* mutant of FirstStitches: the minimum of 6 stitches is not applied
FirstStitchesNoFloor(r, g) == IdealStitches(Max(r, 5), g)

\* first row (magic circle): radius at least 0.5 cm, at least 6 stitches
FirstStitches(r, g) == Max(IdealStitches(Max(r, 5), g), 6)

\* mutant of NextStitches: the clamp of a decrease is missing
NextStitchesNoLowerClamp(prev, r, g) ==
    LET ideal == IdealStitches(Max(r, 1), g)
        max_delta == Max(prev \div 6, 6)
        clamped == IF ideal > prev + max_delta THEN prev + max_delta ELSE ideal
    IN Max(clamped, 6)

\* mutant of NextStitches: the final minimum of 6 stitches is missing
NextStitchesNoFloor(prev, r, g) ==
    LET ideal == IdealStitches(Max(r, 1), g)
        max_delta == Max(prev \div 6, 6)
    IN IF ideal > prev + max_delta THEN prev + max_delta
       ELSE IF ideal + max_delta < prev
            THEN SaturatingSub(prev, max_delta)
            ELSE ideal

\* mutant of NextStitches: the two clamp assignments are swapped
NextStitchesSwappedClamp(prev, r, g) ==
    LET ideal == IdealStitches(Max(r, 1), g)
        max_delta == Max(prev \div 6, 6)
        clamped == IF ideal > prev + max_delta
                   THEN SaturatingSub(prev, max_delta)
                   ELSE IF ideal + max_delta < prev
                        THEN prev + max_delta
                        ELSE ideal
    IN Max(clamped, 6)

\* mutant of NextStitches: the count is truncated (as usize) without round()
NextStitchesTruncated(prev, r, g) ==
    LET ideal == (2 * 355 * Max(r, 1) * g) \div (113 * 10)
        max_delta == Max(prev \div 6, 6)
        clamped == IF ideal > prev + max_delta THEN prev + max_delta
                   ELSE IF ideal + max_delta < prev
                        THEN SaturatingSub(prev, max_delta)
                        ELSE ideal
    IN Max(clamped, 6)

\* a subsequent row: radius at least 0.1 cm, clamped to the band around the
\* previous count, at least 6 stitches
NextStitches(prev, r, g) ==
    LET ideal == IdealStitches(Max(r, 1), g)
        max_delta == Max(prev \div 6, 6)
        clamped == IF ideal > prev + max_delta THEN prev + max_delta
                   ELSE IF ideal + max_delta < prev
                        THEN SaturatingSub(prev, max_delta)
                        ELSE ideal
    IN Max(clamped, 6)

RECURSIVE CountsUpTo(_, _, _)
CountsUpTo(radii, g, n) ==
    IF n = 1 THEN <<FirstStitches(radii[1], g)>>
    ELSE LET before == CountsUpTo(radii, g, n - 1)
         IN Append(before, NextStitches(before[n - 1], radii[n], g))

calculate_stitch_counts(radii, g) ==
    IF Len(radii) = 0 THEN <<>> ELSE CountsUpTo(radii, g, Len(radii))

---------------------------------------------------------------------------
(* Specification of the StitchCountSolver alone: the radii and the gauge   *)
(* are the inputs, one action applies calculate_stitch_counts.             *)

RadiiInputs == UNION {[1..n -> 0..MaxRadius] : n \in 1..MaxRows}

InitCount ==
    /\ pc = "count"
    /\ row_radii \in RadiiInputs
    /\ gauge \in 1..MaxGauge
    /\ stitch_counts = <<>>
    /\ prev_stitches = 0
    /\ total_stitches = 0
    /\ pattern = <<>>
    /\ result = <<>>
    /\ AnnealIdle

CalculateStitchCounts ==
    /\ pc = "count"
    /\ stitch_counts' = calculate_stitch_counts(row_radii, gauge)
    /\ pc' = "counted"
    /\ UNCHANGED <<row_radii, gauge, prev_stitches, total_stitches, pattern, result,
                   annealVars, energyVars,
                   meshVars>>

NextCount == CalculateStitchCounts

SpecCount == InitCount /\ [][NextCount]_vars

---------------------------------------------------------------------------
(* RowComposer: generator.rs, generate_row_pattern.  A StitchInstruction is *)
(* [stitch_type, stitch_index]; its angular_position is                     *)
(* 2*PI*stitch_index / prev_stitches, a function of the two, and is left    *)
(* out.                                                                     *)

StitchTypes == {"SC", "INC", "DEC", "INVDEC"}

Instruction(t, i) == [stitch_type |-> t, stitch_index |-> i]

\* mutant of TargetCount: the quotient rounded down instead of up
TargetCountFloor(i, num, prev) == ((i + 1) * num) \div prev

\* how many special stitches should have been placed by position i + 1
TargetCount(i, num, prev) == ((i + 1) * num + prev - 1) \div prev

\* the loop "for i in 0..prev_stitches" of the increase branch, from index i
RECURSIVE IncLoop(_, _, _, _, _)
IncLoop(prev, num_increases, i, inc_count, pat) ==
    IF i >= prev THEN pat
    ELSE LET should_inc == inc_count < TargetCount(i, num_increases, prev)
         IN IF should_inc
            THEN IncLoop(prev, num_increases, i + 1, inc_count + 1,
                         Append(pat, Instruction("INC", i)))
            ELSE IncLoop(prev, num_increases, i + 1, inc_count,
                         Append(pat, Instruction("SC", i)))

\* mutant of DecLoop: an INVDEC advances i by 1, not by 2
RECURSIVE DecLoopNoSkip(_, _, _, _, _)
DecLoopNoSkip(prev, num_decreases, i, dec_count, pat) ==
    IF i >= prev THEN pat
    ELSE LET should_dec == /\ dec_count < TargetCount(i, num_decreases, prev)
                           /\ i + 1 < prev
         IN IF should_dec
            THEN DecLoopNoSkip(prev, num_decreases, i + 1, dec_count + 1,
                               Append(pat, Instruction("INVDEC", i)))
            ELSE DecLoopNoSkip(prev, num_decreases, i + 1, dec_count,
                               Append(pat, Instruction("SC", i)))

\* the loop "while i < prev_stitches" of the decrease branch, from index i
RECURSIVE DecLoop(_, _, _, _, _)
DecLoop(prev, num_decreases, i, dec_count, pat) ==
    IF i >= prev THEN pat
    ELSE LET should_dec == /\ dec_count < TargetCount(i, num_decreases, prev)
                           /\ i + 1 < prev
         IN IF should_dec
            THEN DecLoop(prev, num_decreases, i + 2, dec_count + 1,
                         Append(pat, Instruction("INVDEC", i)))
            ELSE DecLoop(prev, num_decreases, i + 1, dec_count,
                         Append(pat, Instruction("SC", i)))

\* mutant of generate_row_pattern: the increase branch loops over the
\* stitches of the new row instead of those of the previous row
generate_row_pattern_LoopToTotal(prev, total) ==
    LET delta == total - prev
    IN IF delta = 0 THEN [k \in 1..prev |-> Instruction("SC", k - 1)]
       ELSE IF delta > 0 THEN IncLoop(total, delta, 0, 0, <<>>)
       ELSE DecLoop(prev, -delta, 0, 0, <<>>)

generate_row_pattern(prev, total) ==
    LET delta == total - prev
    IN IF delta = 0 THEN [k \in 1..prev |-> Instruction("SC", k - 1)]
       ELSE IF delta > 0 THEN IncLoop(prev, delta, 0, 0, <<>>)
       ELSE DecLoop(prev, -delta, 0, 0, <<>>)

---------------------------------------------------------------------------
(* Specification of the RowComposer alone: the two counts are the inputs,  *)
(* one action applies generate_row_pattern.                                *)

InitCompose ==
    /\ pc = "compose"
    /\ prev_stitches \in 1..MaxStitches
    /\ total_stitches \in 1..(2 * MaxStitches)
    /\ pattern = <<>>
    /\ row_radii = <<>>
    /\ gauge = 1
    /\ stitch_counts = <<>>
    /\ result = <<>>
    /\ AnnealIdle

ComposeRow ==
    /\ pc = "compose"
    /\ pattern' = generate_row_pattern(prev_stitches, total_stitches)
    /\ pc' = "composed"
    /\ UNCHANGED <<row_radii, gauge, stitch_counts, prev_stitches,
                   total_stitches, result, annealVars, energyVars,
                   meshVars>>

NextCompose == ComposeRow

SpecCompose == InitCompose /\ [][NextCompose]_vars

---------------------------------------------------------------------------
(* PlacementAnnealer: optimization.rs.  The generator seeded with 42 is    *)
(* modelled by its possible draws: which move an iteration proposes and    *)
(* whether the Metropolis test accepts it are nondeterministic, and so is  *)
(* the floating-point comparison candidate_energy < best_energy that       *)
(* updates best.  optimize_special_stitch_indices is therefore the set of  *)
(* arrangements the loop can return within MaxIter iterations.             *)

Range(s) == {s[k] : k \in 1..Len(s)}

RECURSIVE SortSet(_)
SortSet(S) ==
    IF S = {} THEN <<>>
    ELSE LET m == CHOOSE x \in S : \A y \in S : x <= y
         IN <<m>> \o SortSet(S \ {m})

\* 0-based indices of the instructions that are not SC, in row order
SpecialIndices(pat) ==
    SelectSeq([k \in 1..Len(pat) |-> k - 1],
              LAMBDA i : pat[i + 1].stitch_type # "SC")

\* evenly spaced start positions, offset by half a spacing when the
\* previous row has special stitches
InitialPositions(n, pattern_length, staggered) ==
    LET even == [k \in 1..n |-> Round((k - 1) * pattern_length, n) % pattern_length]
        offset == Round(pattern_length, 2 * n)
    IN IF staggered
       THEN [k \in 1..n |-> (even[k] + offset) % pattern_length]
       ELSE even

\* the candidates one iteration can propose and keep: current with two
\* entries swapped, or with one entry shifted by -3..3 (rem_euclid), then
\* sorted and deduplicated; a candidate that lost a position is skipped
Candidates(current, pattern_length) ==
    LET n == Len(current)
        S == Range(current)
        swapped == IF n > 1 THEN {S} ELSE {}
        shifted == {(S \ {current[i]}) \cup {(current[i] + delta) % pattern_length} :
                        i \in 1..n, delta \in -3..3}
    IN {SortSet(T) : T \in {U \in swapped \cup shifted : Cardinality(U) = n}}

\* the values current can have after at most k more iterations
RECURSIVE Currents(_, _, _)
Currents(reached, pattern_length, k) ==
    IF k = 0 THEN reached
    ELSE Currents(reached \cup UNION {Candidates(c, pattern_length) : c \in reached},
                  pattern_length, k - 1)

\* best is the start arrangement, or an accepted candidate whose computed
\* energy is lower (the floating-point sums of index_energy are not
\* modelled, so any accepted candidate may be the one)
optimize_special_stitch_indices(special_indices, prev_special_indices, pattern_length) ==
    IF Len(special_indices) = 0 THEN {<<>>}
    ELSE LET n == Len(special_indices)
             start == InitialPositions(n, pattern_length,
                                       Len(prev_special_indices) > 0)
         IN Currents({start}, pattern_length, MaxIter)

\* the row with its special stitches moved to optimized_indices
PlaceSpecials(row, special_indices, optimized_indices) ==
    LET len == Len(row.pattern)
        placed(pos) == {j \in 1..Len(optimized_indices) : optimized_indices[j] = pos}
        last(J) == CHOOSE j \in J : \A h \in J : h <= j
        new_pattern ==
            [k \in 1..len |->
                IF placed(k - 1) = {} THEN "SC"
                ELSE row.pattern[special_indices[last(placed(k - 1))] + 1].stitch_type]
    IN [row_number |-> row.row_number,
        total_stitches |-> row.total_stitches,
        pattern |-> [k \in 1..len |-> Instruction(new_pattern[k], k - 1)]]

\* the rows optimize_stitch_placement can push for rows[row_idx + 1], given
\* the rows it has pushed before
OptimizeRow(rows, optimized, row_idx) ==
    LET row == rows[row_idx + 1]
        special_indices == SpecialIndices(row.pattern)
        prev_special_indices ==
            IF row_idx > 0 THEN SpecialIndices(optimized[row_idx].pattern)
            ELSE <<>>
    IN IF Len(special_indices) = 0 THEN {row}
       ELSE {PlaceSpecials(row, special_indices, best) :
                best \in optimize_special_stitch_indices(
                            special_indices, prev_special_indices,
                            Len(row.pattern))}

RECURSIVE OptimizedPrefixes(_, _)
OptimizedPrefixes(rows, n) ==
    IF n = 0 THEN {<<>>}
    ELSE UNION {{Append(optimized, r) : r \in OptimizeRow(rows, optimized, n - 1)} :
                    optimized \in OptimizedPrefixes(rows, n - 1)}

optimize_stitch_placement(rows) == OptimizedPrefixes(rows, Len(rows))

---------------------------------------------------------------------------
(* generate_pattern, generator.rs, from Step 3 on: the row radii found by   *)
(* Step 2 and the gauge are the inputs.                                     *)

\* the running totals <<prev_consumed, current_produced>> of validate_pattern
\* after the first n instructions
RECURSIVE ValidateTotals(_, _)
ValidateTotals(pat, n) ==
    IF n = 0 THEN <<0, 0>>
    ELSE LET t == ValidateTotals(pat, n - 1)
             st == pat[n].stitch_type
         IN CASE st = "SC" -> <<t[1] + 1, t[2] + 1>>
              [] st = "INC" -> <<t[1] + 1, t[2] + 2>>
              [] st \in {"DEC", "INVDEC"} -> <<t[1] + 2, t[2] + 1>>

\* TRUE for Ok(()), FALSE for Err(InternalError)
validate_pattern(row, prev_row_stitches) ==
    LET t == ValidateTotals(row.pattern, Len(row.pattern))
    IN /\ t[1] = prev_row_stitches
       /\ t[2] = row.total_stitches

RECURSIVE SumTotalStitches(_, _)
SumTotalStitches(rows, n) ==
    IF n = 0 THEN 0 ELSE SumTotalStitches(rows, n - 1) + rows[n].total_stitches

\* total_rows and total_stitches of the metadata (the time and yarn
\* estimates are floating-point functions of these and are left out)
calculate_metadata(rows) ==
    [total_rows |-> Len(rows),
     total_stitches |-> SumTotalStitches(rows, Len(rows))]

MagicCircle(total) == [k \in 1..total |-> Instruction("SC", k - 1)]

Failure == [ok |-> FALSE, rows |-> <<>>, metadata |-> calculate_metadata(<<>>)]

\* mutant of generate_pattern: the previous row is looked up at the row's
\* own index, both when the row is composed (Step 4) and when it is
\* validated (Step 5.5)
generate_pattern_PrevOffByOne(radii, g) ==
    LET counts == calculate_stitch_counts(radii, g)
        rows == [idx \in 1..Len(counts) |->
                    [row_number |-> idx,
                     total_stitches |-> counts[idx],
                     pattern |-> IF idx = 1 THEN MagicCircle(counts[idx])
                                 ELSE generate_row_pattern(counts[idx],
                                                           counts[idx])]]
    IN {IF \A idx \in 2..Len(optimized) :
              validate_pattern(optimized[idx], optimized[idx].total_stitches)
        THEN [ok |-> TRUE, rows |-> optimized,
              metadata |-> calculate_metadata(optimized)]
        ELSE Failure : optimized \in optimize_stitch_placement(rows)}

\* the results generate_pattern can return
generate_pattern(radii, g) ==
    LET counts == calculate_stitch_counts(radii, g)
        rows == [idx \in 1..Len(counts) |->
                    [row_number |-> idx,
                     total_stitches |-> counts[idx],
                     pattern |-> IF idx = 1 THEN MagicCircle(counts[idx])
                                 ELSE generate_row_pattern(counts[idx - 1],
                                                           counts[idx])]]
    IN {IF \A idx \in 2..Len(optimized) :
              validate_pattern(optimized[idx], optimized[idx - 1].total_stitches)
        THEN [ok |-> TRUE, rows |-> optimized,
              metadata |-> calculate_metadata(optimized)]
        ELSE Failure : optimized \in optimize_stitch_placement(rows)}

---------------------------------------------------------------------------
(* Specification of the profile pipeline: one call of generate_pattern.    *)

PatternRadiiInputs ==
    UNION {[1..n -> 0..MaxPatternRadius] : n \in 1..MaxPatternRows}

Init ==
    /\ pc = "generate"
    /\ row_radii \in PatternRadiiInputs
    /\ gauge \in 1..MaxPatternGauge
    /\ stitch_counts = <<>>
    /\ prev_stitches = 0
    /\ total_stitches = 0
    /\ pattern = <<>>
    /\ result = Failure
    /\ AnnealIdle

GeneratePattern ==
    /\ pc = "generate"
    /\ \E r \in generate_pattern(row_radii, gauge) : result' = r
    /\ pc' = "done"
    /\ UNCHANGED <<row_radii, gauge, stitch_counts, prev_stitches,
                   total_stitches, pattern, annealVars, energyVars,
                   meshVars>>

Next == GeneratePattern

Spec == Init /\ [][Next]_vars

---------------------------------------------------------------------------
(* optimize_stitch_placement with its random generator, optimization.rs.   *)
(* The output of ChaCha8Rng::seed_from_u64(42) is one fixed sequence that   *)
(* the model does not compute: rng_stream holds the part of it that has     *)
(* been drawn so far, one entry per iteration of the annealing loop.  A     *)
(* draw inside rng_stream repeats it, a draw past its end extends it with   *)
(* any value the generator may give.  An entry records the move drawn       *)
(* (gen_bool, gen_range) and how the two floating-point tests of the        *)
(* iteration came out (Metropolis acceptance, candidate_energy <            *)
(* best_energy).  A generator is its position in rng_stream.                *)

\* bounds of the annealer specification: rows of the input, longest
\* pattern, special stitches in the input, annealing iterations followed per
\* row, calls made
MaxAnnealRows == 2
MaxAnnealLen == 3
MaxSpecials == 2
MaxAnnealIter == 1
MaxCalls == 2

\* optimization.rs:139 gen_range(-3..=3)
MaxShift == 3

\* the candidate of one iteration: the move applied to current, then
\* sort_unstable and dedup (two swapped entries are back in place after the
\* sort)
Candidate(current, e, pattern_length) ==
    LET n == Len(current)
        moved == IF e.kind = "swap" /\ n > 1 THEN current
                 ELSE [current EXCEPT ![(e.i % n) + 1] =
                                          (@ + e.delta) % pattern_length]
    IN SortSet(Range(moved))

\* what an iteration that starts from current can draw
Draws(current, pattern_length) ==
    LET n == Len(current)
        moves == (IF n > 1 THEN {[kind |-> "swap", i |-> 0, delta |-> 0]} ELSE {})
                 \cup {[kind |-> "shift", i |-> i, delta |-> d] :
                          i \in 0..(n - 1), d \in (-MaxShift)..MaxShift}
        outcomes(m) == IF Len(Candidate(current, m, pattern_length)) # n
                       THEN {"skip"}
                       ELSE {"reject", "accept", "best"}
    IN UNION {{[kind |-> m.kind, i |-> m.i, delta |-> m.delta, outcome |-> o] :
                  o \in outcomes(m)} : m \in moves}

\* mutant of AnnealStep: a candidate that lost positions in dedup is not
\* skipped
AnnealStepNoCollisionCheck(st, e, pattern_length) ==
    LET candidate == Candidate(st.current, e, pattern_length)
    IN IF e.outcome \in {"accept", "best", "skip"}
       THEN [current |-> candidate, best |-> candidate]
       ELSE st

\* one iteration of the loop of optimize_special_stitch_indices
AnnealStep(st, e, pattern_length) ==
    LET candidate == Candidate(st.current, e, pattern_length)
    IN IF Len(candidate) # Len(st.current) THEN st
       ELSE IF e.outcome \in {"accept", "best"}
       THEN [current |-> candidate,
             best |-> IF e.outcome = "best" THEN candidate ELSE st.best]
       ELSE st

\* the loop: k more iterations with the generator at position pos
RECURSIVE AnnealLoop(_, _, _, _, _)
AnnealLoop(st, stream, pos, pattern_length, k) ==
    IF k = 0 THEN {[best |-> st.best, stream |-> stream, pos |-> pos]}
    ELSE IF pos < Len(stream)
    THEN AnnealLoop(AnnealStep(st, stream[pos + 1], pattern_length),
                    stream, pos + 1, pattern_length, k - 1)
    ELSE UNION {AnnealLoop(AnnealStep(st, e, pattern_length),
                           Append(stream, e), pos + 1, pattern_length, k - 1) :
                   e \in Draws(st.current, pattern_length)}

\* optimize_special_stitch_indices with its rng argument
AnnealIndices(special_indices, prev_special_indices, pattern_length, stream, pos) ==
    IF Len(special_indices) = 0
    THEN {[best |-> <<>>, stream |-> stream, pos |-> pos]}
    ELSE LET start == InitialPositions(Len(special_indices), pattern_length,
                                       Len(prev_special_indices) > 0)
         IN AnnealLoop([current |-> start, best |-> start], stream, pos,
                       pattern_length, MaxAnnealIter)

\* the loop over the rows of optimize_stitch_placement: the first n rows,
\* with one generator handed from row to row
RECURSIVE AnnealRows(_, _, _, _)
AnnealRows(rws, n, stream, pos) ==
    IF n = 0 THEN {[optimized |-> <<>>, stream |-> stream, pos |-> pos]}
    ELSE UNION {
        LET row == rws[n]
            special_indices == SpecialIndices(row.pattern)
            prev_special_indices ==
                IF n > 1 THEN SpecialIndices(p.optimized[n - 1].pattern) ELSE <<>>
        IN IF Len(special_indices) = 0
           THEN {[optimized |-> Append(p.optimized, row),
                  stream |-> p.stream, pos |-> p.pos]}
           ELSE {[optimized |-> Append(p.optimized,
                                       PlaceSpecials(row, special_indices, a.best)),
                  stream |-> a.stream, pos |-> a.pos] :
                    a \in AnnealIndices(special_indices, prev_special_indices,
                                        Len(row.pattern), p.stream, p.pos)}
        : p \in AnnealRows(rws, n - 1, stream, pos)}

\* mutant of seed_from_u64: the generator outlives the call, the next call
\* draws on from where the last one stopped
SharedRng == Len(rng_stream)

\* optimization.rs:14 ChaCha8Rng::seed_from_u64(42): a new generator, at the
\* start of the stream of seed 42
seed_from_u64 == 0

---------------------------------------------------------------------------
(* Specification of the placement annealer: optimize_stitch_placement is   *)
(* called MaxCalls times on the same rows.                                  *)

\* the stitch types generate_row_pattern emits
ComposerStitchTypes == {"SC", "INC", "INVDEC"}

InputRow(types, idx) ==
    [row_number |-> idx,
     total_stitches |-> Len(types) + Cardinality({k \in 1..Len(types) : types[k] = "INC"}),
     pattern |-> [k \in 1..Len(types) |-> Instruction(types[k], k - 1)]]

AnnealPatterns == UNION {[1..len -> ComposerStitchTypes] : len \in 1..MaxAnnealLen}

RECURSIVE SpecialsIn(_, _)
SpecialsIn(f, n) ==
    IF n = 0 THEN 0
    ELSE SpecialsIn(f, n - 1) + Cardinality({k \in 1..Len(f[n]) : f[n][k] # "SC"})

AnnealInputs(n) ==
    {[idx \in 1..n |-> InputRow(f[idx], idx)] :
        f \in {g \in [1..n -> AnnealPatterns] : SpecialsIn(g, n) <= MaxSpecials}}

InitAnneal ==
    /\ pc = "anneal"
    /\ MeshIdle
    /\ \E n \in 1..MaxAnnealRows : input_rows \in AnnealInputs(n)
    /\ rng_stream = <<>>
    /\ outputs = <<>>
    /\ indices = <<>>
    /\ pattern_len = 0
    /\ energies = <<>>
    /\ row_radii = <<>>
    /\ gauge = 1
    /\ stitch_counts = <<>>
    /\ prev_stitches = 0
    /\ total_stitches = 0
    /\ pattern = <<>>
    /\ result = <<>>

OptimizeStitchPlacement ==
    /\ pc = "anneal"
    /\ Len(outputs) < MaxCalls
    /\ \E r \in AnnealRows(input_rows, Len(input_rows), rng_stream, seed_from_u64) :
        /\ outputs' = Append(outputs, r.optimized)
        /\ rng_stream' = r.stream
    /\ UNCHANGED <<pc, input_rows, row_radii, gauge, stitch_counts, prev_stitches,
                   total_stitches, pattern, result, energyVars,
                   meshVars>>

NextAnneal == OptimizeStitchPlacement

SpecAnneal == InitAnneal /\ [][NextAnneal]_vars

---------------------------------------------------------------------------
(* index_energy, optimization.rs, for a row whose previous row has no      *)
(* special stitch (prev_indices empty): the energy is the repulsion term    *)
(* - SUM ln(dist + 1) over the pairs of indices.  The model keeps           *)
(* exp(-energy), the product of (dist + 1) over the pairs, which is an      *)
(* integer: a lower energy is a larger product.                             *)

\* bound of the energy specification: longest pattern
MaxEnergyLen == 10

\* mutant of circular_distance: the distance does not wrap around the row
circular_distance_NoWrap(a, b, length) == IF a > b THEN a - b ELSE b - a

circular_distance(a, b, length) ==
    LET diff == IF a > b THEN a - b ELSE b - a
    IN IF diff <= length - diff THEN diff ELSE length - diff

RECURSIVE PairProduct(_, _, _, _)
PairProduct(ix, i, j, length) ==
    IF i >= Len(ix) THEN 1
    ELSE IF j > Len(ix) THEN PairProduct(ix, i + 1, i + 2, length)
    ELSE (circular_distance(ix[i], ix[j], length) + 1)
             * PairProduct(ix, i, j + 1, length)

\* exp(-index_energy(ix, [], length)); 1 for the energy 0.0 of n <= 1
index_energy(ix, length) == PairProduct(ix, 1, 2, length)

\* a < b for two energies kept as exp(-energy)
LowerEnergy(a, b) == a > b

---------------------------------------------------------------------------
(* Specification of index_energy: an arrangement of at most half the row   *)
(* is compared with the evenly spaced arrangement of the same size.         *)

EnergyInputs(length) ==
    {SortSet(S) : S \in {T \in SUBSET (0..(length - 1)) :
                            T # {} /\ 2 * Cardinality(T) <= length}}

InitEnergy ==
    /\ pc = "energy"
    /\ MeshIdle
    /\ pattern_len \in 2..MaxEnergyLen
    /\ indices \in EnergyInputs(pattern_len)
    /\ energies = <<>>
    /\ input_rows = <<>>
    /\ rng_stream = <<>>
    /\ outputs = <<>>
    /\ row_radii = <<>>
    /\ gauge = 1
    /\ stitch_counts = <<>>
    /\ prev_stitches = 0
    /\ total_stitches = 0
    /\ pattern = <<>>
    /\ result = <<>>

IndexEnergy ==
    /\ pc = "energy"
    /\ energies' =
           [given |-> index_energy(indices, pattern_len),
            even |-> index_energy(InitialPositions(Len(indices), pattern_len, FALSE),
                                  pattern_len)]
    /\ pc' = "energy_done"
    /\ UNCHANGED <<indices, pattern_len, row_radii, gauge, stitch_counts,
                   prev_stitches, total_stitches, pattern, result, annealVars,
                   meshVars>>

NextEnergy == IndexEnergy

SpecEnergy == InitEnergy /\ [][NextEnergy]_vars

---------------------------------------------------------------------------
(* The topological cut of the mesh pipeline (src/wasm/src/bindings.rs).

   A MeshData is a record of a vertex list and a face list.  A vertex is
   represented by the identity of its data (position, normal, uv), which a
   clone keeps: vertex k of an input mesh carries the identity k.  A face is
   a triple of 0-based vertex indices, as in Face.indices. *)

MaxMeshVertices == 4
MaxFaces == 4
MaxSeam == 2

\* bindings.rs:233-237 without the contains_key test: a vertex is pushed for
\* every occurrence of a seam vertex
DuplicateVertexNoMapCheck(st, m, v_idx) ==
    [vertices |-> Append(st.vertices, m.vertices[v_idx + 1]),
     faces |-> st.faces,
     vertex_map |-> [w \in DOMAIN st.vertex_map \cup {v_idx} |->
                        IF w = v_idx THEN Len(st.vertices)
                        ELSE st.vertex_map[w]]]

\* bindings.rs:233-237: the first time a seam vertex is met, a clone of it is
\* pushed and vertex_map remembers the index of the clone
DuplicateVertex(st, m, v_idx) ==
    IF v_idx \in DOMAIN st.vertex_map THEN st
    ELSE [vertices |-> Append(st.vertices, m.vertices[v_idx + 1]),
          faces |-> st.faces,
          vertex_map |-> [w \in DOMAIN st.vertex_map \cup {v_idx} |->
                             IF w = v_idx THEN Len(st.vertices)
                             ELSE st.vertex_map[w]]]

\* bindings.rs:241-247: every index equal to v0, in every face, becomes the
\* index of v0's clone
RewriteFaces(faces, v0, new_idx) ==
    [f \in 1..Len(faces) |->
        [k \in 1..3 |-> IF faces[f][k] = v0 THEN new_idx ELSE faces[f][k]]]

\* bindings.rs:231-248: the body of the loop for one seam edge (v0, v1)
CutEdge(st, m, edge) ==
    LET dup == DuplicateVertex(DuplicateVertex(st, m, edge[1]), m, edge[2])
    IN [dup EXCEPT !.faces = RewriteFaces(@, edge[1], dup.vertex_map[edge[1]])]

RECURSIVE CutLoop(_, _, _, _)
CutLoop(st, m, sm, k) ==
    IF k > Len(sm) THEN st
    ELSE CutLoop(CutEdge(st, m, sm[k]), m, sm, k + 1)

apply_topological_cut(m, sm) ==
    LET st == CutLoop([vertices |-> m.vertices, faces |-> m.faces,
                       vertex_map |-> <<>>], m, sm, 1)
    IN [vertices |-> st.vertices, faces |-> st.faces]

\* mesh/types.rs:143-161: the twin of each half-edge, {} for None.  Half-edge
\* i (1-based here) matches the first later half-edge that runs the other way.
RECURSIVE MatchTwins(_, _, _)
MatchTwins(edges, twin, i) ==
    IF i > Len(edges) THEN twin
    ELSE IF twin[i] # {} THEN MatchTwins(edges, twin, i + 1)
    ELSE LET v0 == edges[i].vertex
             v1 == edges[edges[i].next].vertex
             J == {j \in (i + 1)..Len(edges) :
                      /\ v0 = edges[edges[j].next].vertex
                      /\ v1 = edges[j].vertex}
         IN IF J = {} THEN MatchTwins(edges, twin, i + 1)
            ELSE LET j == CHOOSE x \in J : \A y \in J : x <= y
                 IN MatchTwins(edges, [twin EXCEPT ![i] = {j}, ![j] = {i}],
                               i + 1)

\* mesh/types.rs:115-168 HalfEdgeMesh::from_mesh; half-edges are numbered
\* from 1, the three of face f being 3(f-1)+1 .. 3(f-1)+3
from_mesh(m) ==
    LET edges == [e \in 1..(3 * Len(m.faces)) |->
                    LET f == (e - 1) \div 3 + 1
                        i == (e - 1) % 3
                    IN [vertex |-> m.faces[f][i + 1],
                        face |-> f,
                        next |-> 3 * (f - 1) + ((i + 1) % 3) + 1,
                        prev |-> 3 * (f - 1) + ((i + 2) % 3) + 1]]
        twin == MatchTwins(edges, [e \in 1..Len(edges) |-> {}], 1)
    IN [edges |-> [e \in 1..Len(edges) |->
                      [vertex |-> edges[e].vertex, face |-> edges[e].face,
                       next |-> edges[e].next, prev |-> edges[e].prev,
                       twin |-> twin[e]]],
        vertex_to_edge |-> [v \in 1..Len(m.vertices) |->
                               {e \in 1..Len(edges) :
                                   /\ edges[e].vertex = v - 1
                                   /\ \A d \in 1..(e - 1) :
                                          edges[d].vertex # v - 1}],
        face_to_edge |-> [f \in 1..Len(m.faces) |-> 3 * (f - 1) + 1]]

\* the faces a processed mesh of n vertices can have, up to rotation:
\* processing.rs:42-48 has removed every face with a repeated index
OrientedTriangles(n) ==
    {t \in (0..(n - 1)) \X (0..(n - 1)) \X (0..(n - 1)) :
        /\ t[1] < t[2] /\ t[1] < t[3] /\ t[2] # t[3]}

FaceCode(t) == (t[1] * MaxMeshVertices + t[2]) * MaxMeshVertices + t[3]

FaceOfCode(c) ==
    <<c \div (MaxMeshVertices * MaxMeshVertices),
      (c \div MaxMeshVertices) % MaxMeshVertices,
      c % MaxMeshVertices>>

\* meshes of n vertices and up to MaxFaces distinct faces, the faces listed
\* in one order
MeshInputs(n) ==
    {[vertices |-> [k \in 1..n |-> k - 1],
      faces |-> [k \in 1..Cardinality(T) |->
                    FaceOfCode(SortSet({FaceCode(t) : t \in T})[k])]] :
        T \in {U \in SUBSET OrientedTriangles(n) : Cardinality(U) <= MaxFaces}}

\* seam edge lists of up to MaxSeam pairs of valid vertex indices
SeamInputs(m) ==
    UNION {[1..len -> (0..(Len(m.vertices) - 1)) \X (0..(Len(m.vertices) - 1))] :
              len \in 0..MaxSeam}

InitCut ==
    /\ pc = "cut"
    /\ \E n \in 1..MaxMeshVertices : mesh \in MeshInputs(n)
    /\ seam \in SeamInputs(mesh)
    /\ cut_mesh = <<>>
    /\ PipeIdle
    /\ ValidateIdle /\ SeamIdle /\ CoreIdle
    /\ input_rows = <<>>
    /\ rng_stream = <<>>
    /\ outputs = <<>>
    /\ indices = <<>>
    /\ pattern_len = 0
    /\ energies = <<>>
    /\ row_radii = <<>>
    /\ gauge = 1
    /\ stitch_counts = <<>>
    /\ prev_stitches = 0
    /\ total_stitches = 0
    /\ pattern = <<>>
    /\ result = <<>>

ApplyTopologicalCut ==
    /\ pc = "cut"
    /\ cut_mesh' = apply_topological_cut(mesh, seam)
    /\ pc' = "cut_done"
    /\ UNCHANGED <<mesh, seam, row_radii, gauge, stitch_counts, prev_stitches,
                   total_stitches, pattern, result, annealVars, energyVars,
                   pipeVars, validateVars, seamVars, coreVars>>

NextCut == ApplyTopologicalCut

SpecCut == InitCut /\ [][NextCut]_vars

---------------------------------------------------------------------------
(* The mesh pipeline: generate_pattern of src/wasm/src/bindings.rs.

   Each stage is one action.  What a stage computes from the bytes of the
   model is not followed: a stage that returns a Result either succeeds or
   returns an error, and the pipeline's reaction is what is modelled.  From
   the stitch grid on the data are followed: the grid generator's row counts,
   the classifier's stitch types and the optimizer's row instructions.

   The mesh has two vertices near the stitches; a curvature is kept in
   hundredths, an Option as a set of at most one element. *)

MaxGridRows == 3
MaxRowWidth == 7

CurvatureSamples == {-40, 0, 20, 40}

\* bindings.rs:70-207: the stages in the order of the calls
Stages ==
    <<"load", "process", "seam", "curvature", "parameterize", "grid",
      "classify", "optimize", "instructions">>

\* every Err arm returns
HaltsOnEveryError(stage) == TRUE

\* bindings.rs:111-113 (if let Ok) and 118-120 (log_warn) go on after an
\* error; the Err arms of the other stages return
Halts(stage) == stage \notin {"seam", "curvature"}

\* bindings.rs:75, 94, 129, 150, 176, 195: the message of each Err arm
ErrorMessage(stage) ==
    CASE stage = "load" -> "Failed to load model"
      [] stage = "process" -> "Mesh processing failed"
      [] stage = "parameterize" -> "Parameterization failed"
      [] stage = "grid" -> "Stitch generation failed"
      [] stage = "optimize" -> "Pattern optimization failed"
      [] stage = "instructions" -> "Instruction generation failed"
      [] OTHER -> "error"

\* lib.rs ProcessingResult, as the Ok value of generate_pattern
FailureResult(msg) ==
    [is_ok |-> TRUE,
     value |-> [success |-> FALSE, pattern |-> {}, error |-> {msg},
                warnings |-> <<>>]]

SuccessResult(p) ==
    [is_ok |-> TRUE,
     value |-> [success |-> TRUE, pattern |-> {p}, error |-> {},
                warnings |-> <<>>]]

\* bindings.rs:63-68: the Err(JsValue) of a configuration that does not parse
ConfigError == [is_ok |-> FALSE, value |-> "Invalid config"]

UnwrapOr(opt, default) == IF opt = {} THEN default ELSE CHOOSE x \in opt : TRUE

\* grid_generator.rs:46-51: the count of row row_idx from
\* raw = ceil(physical_width * stitches_per_inch)
RowTargetCount(raw, row_idx, total_target_rows) ==
    IF raw < 6 /\ (row_idx = 0 \/ row_idx = total_target_rows - 1) THEN 6
    ELSE IF raw = 0 THEN 1
    ELSE raw

\* grid_generator.rs:32-73: rows are made one after the other, stitch ids
\* count on across rows.  An input row gives the raw count and how many of
\* the leading stitches have vertex 0 as the closest vertex (the others have
\* vertex 1): half of them or none.
RECURSIVE GenerateRows(_, _, _)
GenerateRows(input, row_idx, grid) ==
    IF row_idx >= Len(input) THEN grid
    ELSE LET row_target_count ==
                 RowTargetCount(input[row_idx + 1].raw, row_idx, Len(input))
             first_id == Len(grid.stitches)
             split == input[row_idx + 1].half * (row_target_count \div 2)
             row_stitches ==
                 [col \in 1..row_target_count |->
                     [id |-> first_id + col - 1,
                      stitch_type |-> "SingleCrochet",
                      closest |-> IF col - 1 < split THEN 0 ELSE 1,
                      row |-> row_idx]]
         IN GenerateRows(input, row_idx + 1,
                [stitches |-> grid.stitches \o row_stitches,
                 rows |-> Append(grid.rows,
                                 [col \in 1..row_target_count |->
                                     first_id + col - 1])])

\* grid_generator.rs:13-75 StitchGridGenerator::generate
generate(input) == GenerateRows(input, 0, [stitches |-> <<>>, rows |-> <<>>])

\* the rows of a grid of total_target_rows rows, raw counts up to MaxRowWidth
GridInputs(total_target_rows) ==
    [1..total_target_rows -> [raw : 0..MaxRowWidth, half : {0, 1}]]

\* type_classifier.rs:17-25
ClassifyCurvature(curvature) ==
    IF curvature > 30 THEN "Increase"
    ELSE IF curvature < -30 THEN "Decrease"
    ELSE IF Abs(curvature) < 10 THEN "SingleCrochet"
    ELSE "HalfDoubleCrochet"

\* type_classifier.rs:13-27, 46: every stitch takes the type of the curvature
\* of the vertex at its position, 0.0 where the vertex has none
classify(grid, curvatures) ==
    [grid EXCEPT !.stitches =
        [k \in 1..Len(grid.stitches) |->
            [grid.stitches[k] EXCEPT !.stitch_type =
                ClassifyCurvature(
                    UnwrapOr(curvatures[grid.stitches[k].closest + 1], 0))]]]

\* optimizer.rs:44 never taken: every stitch opens a group of its own
StitchGroupsNoMerge(grid, row_stitch_ids, k, stitch_groups, current_type, current_count) ==
    [i \in 1..Len(row_stitch_ids) |->
        [count |-> 1,
         stitch_type |-> grid.stitches[row_stitch_ids[i] + 1].stitch_type]]


\* optimizer.rs:38-65: runs of one stitch type become groups
RECURSIVE StitchGroups(_, _, _, _, _, _)
StitchGroups(grid, row_stitch_ids, k, stitch_groups, current_type, current_count) ==
    IF k > Len(row_stitch_ids)
    THEN IF current_type = {} THEN stitch_groups
         ELSE Append(stitch_groups,
                     [count |-> current_count,
                      stitch_type |-> UnwrapOr(current_type, "")])
    ELSE LET stitch == grid.stitches[row_stitch_ids[k] + 1]
         IN IF {stitch.stitch_type} = current_type
            THEN StitchGroups(grid, row_stitch_ids, k + 1, stitch_groups,
                              current_type, current_count + 1)
            ELSE StitchGroups(grid, row_stitch_ids, k + 1,
                     IF current_type = {} THEN stitch_groups
                     ELSE Append(stitch_groups,
                                 [count |-> current_count,
                                  stitch_type |-> UnwrapOr(current_type, "")]),
                     {stitch.stitch_type}, 1)

\* optimizer.rs:15-92 PatternOptimizer::optimize (dimensions, time and yarn
\* estimates left out)
optimize(grid) ==
    [metadata |-> [stitch_count |-> Len(grid.stitches),
                   row_count |-> Len(grid.rows)],
     stitches |-> grid.stitches,
     instructions |->
         [rows |-> [row_num \in 1..Len(grid.rows) |->
                       [number |-> row_num,
                        stitches |-> StitchGroups(grid, grid.rows[row_num], 1,
                                                  <<>>, {}, 0),
                        total_stitches |-> Len(grid.rows[row_num])]]],
     diagram |-> {}]

\* instruction/generator.rs:14-20
generate_instructions(p) == [p EXCEPT !.diagram = {"svg"}]

InitMesh ==
    /\ pc = "mesh_config"
    /\ PipeIdle
    /\ CutIdle
    /\ ValidateIdle /\ SeamIdle /\ CoreIdle
    /\ input_rows = <<>>
    /\ rng_stream = <<>>
    /\ outputs = <<>>
    /\ indices = <<>>
    /\ pattern_len = 0
    /\ energies = <<>>
    /\ row_radii = <<>>
    /\ gauge = 1
    /\ stitch_counts = <<>>
    /\ prev_stitches = 0
    /\ total_stitches = 0
    /\ pattern = <<>>
    /\ result = <<>>

otherVars ==
    <<row_radii, gauge, stitch_counts, prev_stitches, total_stitches, pattern,
      result, annealVars, energyVars, cutVars, validateVars,
      seamVars, coreVars>>

\* what every stage that returns a Result does to the position, the log and
\* the returned value
StageStep(stage, next_pc, ok) ==
    /\ pc = stage
    /\ executed' = Append(executed, stage)
    /\ returned_error' =
           IF ok THEN returned_error ELSE Append(returned_error, stage)
    /\ IF ~ok /\ Halts(stage)
       THEN /\ pc' = "mesh_done"
            /\ mesh_result' = FailureResult(ErrorMessage(stage))
       ELSE /\ pc' = next_pc
            /\ UNCHANGED mesh_result

\* bindings.rs:63-68
ParseConfig ==
    /\ pc = "mesh_config"
    /\ \E ok \in BOOLEAN :
           IF ok THEN pc' = "load" /\ UNCHANGED mesh_result
           ELSE pc' = "mesh_done" /\ mesh_result' = ConfigError
    /\ UNCHANGED <<executed, returned_error, cut_applied, vertex_curvature,
                   stitch_grid, mesh_pattern, otherVars>>

\* bindings.rs:71-87
LoadModel ==
    /\ \E ok \in BOOLEAN : StageStep("load", "process", ok)
    /\ UNCHANGED <<cut_applied, vertex_curvature, stitch_grid, mesh_pattern,
                   otherVars>>

\* bindings.rs:92-105
ProcessMesh ==
    /\ \E ok \in BOOLEAN : StageStep("process", "seam", ok)
    /\ UNCHANGED <<cut_applied, vertex_curvature, stitch_grid, mesh_pattern,
                   otherVars>>

\* bindings.rs:110-113: the cut is applied when place_seam returns a seam
PlaceSeam ==
    /\ \E ok \in BOOLEAN :
           /\ StageStep("seam", "curvature", ok)
           /\ cut_applied' = ok
    /\ UNCHANGED <<vertex_curvature, stitch_grid, mesh_pattern, otherVars>>

\* bindings.rs:117-120: after Ok every vertex has a curvature, after an error
\* any vertex may have none
ComputeCurvature ==
    /\ \E ok \in BOOLEAN :
           /\ StageStep("curvature", "parameterize", ok)
           /\ \E c \in [1..2 -> {{s} : s \in CurvatureSamples} \cup {{}}] :
                  /\ ok => \A v \in 1..2 : c[v] # {}
                  /\ vertex_curvature' = c
    /\ UNCHANGED <<cut_applied, stitch_grid, mesh_pattern, otherVars>>

\* bindings.rs:125-141
Parameterize ==
    /\ \E ok \in BOOLEAN : StageStep("parameterize", "grid", ok)
    /\ UNCHANGED <<cut_applied, vertex_curvature, stitch_grid, mesh_pattern,
                   otherVars>>

\* bindings.rs:146-162
GenerateGrid ==
    /\ \E ok \in BOOLEAN :
           /\ StageStep("grid", "classify", ok)
           /\ IF ok THEN \E total_target_rows \in 0..MaxGridRows :
                             \E input \in GridInputs(total_target_rows) :
                                 stitch_grid' = generate(input)
              ELSE UNCHANGED stitch_grid
    /\ UNCHANGED <<cut_applied, vertex_curvature, mesh_pattern, otherVars>>

\* bindings.rs:166-167: classify returns nothing
ClassifyStitches ==
    /\ pc = "classify"
    /\ executed' = Append(executed, "classify")
    /\ stitch_grid' = classify(stitch_grid, vertex_curvature)
    /\ pc' = "optimize"
    /\ UNCHANGED <<returned_error, cut_applied, vertex_curvature,
                   mesh_pattern, mesh_result, otherVars>>

\* bindings.rs:172-188
OptimizePattern ==
    /\ \E ok \in BOOLEAN :
           /\ StageStep("optimize", "instructions", ok)
           /\ mesh_pattern' = IF ok THEN {optimize(stitch_grid)}
                              ELSE mesh_pattern
    /\ UNCHANGED <<cut_applied, vertex_curvature, stitch_grid, otherVars>>

\* bindings.rs:191-222
GenerateInstructions ==
    /\ pc = "instructions"
    /\ executed' = Append(executed, "instructions")
    /\ \E ok \in BOOLEAN :
           IF ok
           THEN LET final_pattern ==
                        generate_instructions(UnwrapOr(mesh_pattern, <<>>))
                IN /\ mesh_pattern' = {final_pattern}
                   /\ mesh_result' = SuccessResult(final_pattern)
                   /\ UNCHANGED returned_error
           ELSE /\ returned_error' = Append(returned_error, "instructions")
                /\ mesh_result' =
                       FailureResult(ErrorMessage("instructions"))
                /\ UNCHANGED mesh_pattern
    /\ pc' = "mesh_done"
    /\ UNCHANGED <<cut_applied, vertex_curvature, stitch_grid, otherVars>>

NextMesh ==
    \/ ParseConfig
    \/ LoadModel
    \/ ProcessMesh
    \/ PlaceSeam
    \/ ComputeCurvature
    \/ Parameterize
    \/ GenerateGrid
    \/ ClassifyStitches
    \/ OptimizePattern
    \/ GenerateInstructions

SpecMesh == InitMesh /\ [][NextMesh]_vars

---------------------------------------------------------------------------
(* Input validation: the entry of generate_pattern in crochet-core
   (generator.rs:98-115, 204-266) and validate_config of crochet-wasm
   (lib.rs:60-78).

   Coordinates are in units of 1e-7 cm, so that 1e-6 is 10 units; radii and
   configuration values are represented by their sign.  The control points of
   a segment are not read by the validation and are left out. *)

MaxSegments == 2

CurvePoints == {<<0, 0>>, <<6, 8>>, <<0, 11>>}

SignValues == {-1, 0, 1}

PatternErr(kind, msg) == [is_ok |-> FALSE, error |-> [kind |-> kind, msg |-> msg]]

PatternOk(v) == [is_ok |-> TRUE, value |-> v]

\* the panic of an index past the end of a Vec
IndexPanic == PatternErr("panic", "index out of bounds")

\* lib.rs (crochet-types) Point2D::distance_to, compared with 1e-6:
\* sqrt(dx^2 + dy^2) > 10 units
Discontinuous(prev_end, curr_start) ==
    LET dx == prev_end[1] - curr_start[1]
        dy == prev_end[2] - curr_start[2]
    IN dx * dx + dy * dy > 10 * 10

\* generator.rs:204-237
validate_curve(c) ==
    IF Len(c.segments) = 0
    THEN PatternErr("InvalidProfileCurve", "Curve has no segments")
    ELSE IF c.start_radius < 0
    THEN PatternErr("InvalidProfileCurve", "Start radius must be non-negative")
    ELSE IF c.end_radius < 0
    THEN PatternErr("InvalidProfileCurve", "End radius must be non-negative")
    ELSE IF \E i \in 2..Len(c.segments) :
                Discontinuous(c.segments[i - 1].end, c.segments[i].start)
    THEN PatternErr("InvalidProfileCurve", "Curve segments are not continuous")
    ELSE PatternOk(<<>>)

\* generator.rs:240-266
validate_config(cfg) ==
    IF cfg.total_height_cm <= 0
    THEN PatternErr("InvalidConfiguration", "Height must be positive")
    ELSE IF cfg.yarn.gauge_stitches_per_cm <= 0
    THEN PatternErr("InvalidConfiguration",
                    "Gauge stitches per cm must be positive")
    ELSE IF cfg.yarn.gauge_rows_per_cm <= 0
    THEN PatternErr("InvalidConfiguration", "Gauge rows per cm must be positive")
    ELSE IF cfg.yarn.recommended_hook_size_mm <= 0
    THEN PatternErr("InvalidConfiguration", "Hook size must be positive")
    ELSE PatternOk(<<>>)

\* generator.rs:107-115: segments[0] and segments.last() are read, then the
\* height of the curve is tested; rest is what Steps 1 to 6 return
CurveHeightCheck(c, rest) ==
    IF Len(c.segments) = 0 THEN IndexPanic
    ELSE IF c.segments[Len(c.segments)].end[2] - c.segments[1].start[2] <= 0
    THEN PatternErr("InvalidProfileCurve", "Curve must have positive height")
    ELSE rest

\* generate_pattern reading the first segment before the validation
generate_pattern_entry_IndexFirst(c, cfg, rest) ==
    IF Len(c.segments) = 0 THEN IndexPanic
    ELSE IF ~validate_curve(c).is_ok THEN validate_curve(c)
    ELSE IF ~validate_config(cfg).is_ok THEN validate_config(cfg)
    ELSE CurveHeightCheck(c, rest)

\* generator.rs:98-115: generate_pattern up to Step 1
generate_pattern_entry(c, cfg, rest) ==
    IF ~validate_curve(c).is_ok THEN validate_curve(c)
    ELSE IF ~validate_config(cfg).is_ok THEN validate_config(cfg)
    ELSE CurveHeightCheck(c, rest)

\* generator.rs:117-200: Steps 1 to 6 return a pattern or the InternalError
\* of validate_pattern
RestResults ==
    {PatternOk("pattern"),
     PatternErr("InternalError", "Pattern validation failed")}

\* crochet-wasm lib.rs:61-78: parsed is FALSE when serde_json cannot parse
\* config_json; the errors are plain strings
wasm_validate_config(parsed, cfg) ==
    IF ~parsed THEN PatternErr("String", "Failed to parse config")
    ELSE IF cfg.total_height_cm <= 0
    THEN PatternErr("String", "Height must be positive")
    ELSE IF cfg.yarn.gauge_stitches_per_cm <= 0
    THEN PatternErr("String", "Gauge stitches per cm must be positive")
    ELSE IF cfg.yarn.gauge_rows_per_cm <= 0
    THEN PatternErr("String", "Gauge rows per cm must be positive")
    ELSE PatternOk("Configuration is valid")

\* the curves of n segments
CurveInputs(n) ==
    {[segments |-> s, start_radius |-> sr, end_radius |-> er] :
        s \in [1..n -> [start : CurvePoints, end : CurvePoints]],
        sr \in {-1, 0}, er \in {-1, 0}}

ConfigInputs ==
    {[total_height_cm |-> h,
      yarn |-> [gauge_stitches_per_cm |-> gs, gauge_rows_per_cm |-> gr,
                recommended_hook_size_mm |-> hook]] :
        h \in SignValues, gs \in SignValues, gr \in SignValues,
        hook \in SignValues}

InitValidate ==
    /\ \/ /\ pc = "core_entry"
          /\ \E n \in 0..MaxSegments : curve \in CurveInputs(n)
       \/ pc = "boundary_entry" /\ curve = <<>>
    /\ config \in ConfigInputs
    /\ core_result = <<>>
    /\ boundary_result = <<>>
    /\ CutIdle
    /\ PipeIdle /\ SeamIdle /\ CoreIdle
    /\ input_rows = <<>>
    /\ rng_stream = <<>>
    /\ outputs = <<>>
    /\ indices = <<>>
    /\ pattern_len = 0
    /\ energies = <<>>
    /\ row_radii = <<>>
    /\ gauge = 1
    /\ stitch_counts = <<>>
    /\ prev_stitches = 0
    /\ total_stitches = 0
    /\ pattern = <<>>
    /\ result = <<>>

\* crochet-core generate_pattern, called with curve and config
CoreGeneratePattern ==
    /\ pc = "core_entry"
    /\ \E rest \in RestResults :
           core_result' = generate_pattern_entry(curve, config, rest)
    /\ pc' = "core_done"
    /\ UNCHANGED <<curve, config, boundary_result, row_radii, gauge,
                   stitch_counts, prev_stitches, total_stitches, pattern,
                   result, annealVars, energyVars, cutVars, pipeVars,
                   seamVars, coreVars>>

\* crochet-wasm validate_config, called with the JSON of config
WasmValidateConfig ==
    /\ pc = "boundary_entry"
    /\ \E parsed \in BOOLEAN :
           boundary_result' = wasm_validate_config(parsed, config)
    /\ pc' = "boundary_done"
    /\ UNCHANGED <<curve, config, core_result, row_radii, gauge,
                   stitch_counts, prev_stitches, total_stitches, pattern,
                   result, annealVars, energyVars, cutVars, pipeVars,
                   seamVars, coreVars>>

NextValidate == CoreGeneratePattern \/ WasmValidateConfig

SpecValidate == InitValidate /\ [][NextValidate]_vars
---------------------------------------------------------------------------
(* The half-edge mesh and the one-ring walks of the curvature stage
   (src/wasm/src/mesh/types.rs, src/wasm/src/mesh/analysis.rs).

   A walk is a record of the vertex, the half-edge it started from
   (start_edge), the half-edge it is at (current), the half-edges it has
   been at in its iterations so far (ring), and whether the loop has been
   left (done). *)

MaxWalkSteps == 8

WalkKinds == {"compute_vertex_curvature", "vertex_valence"}

\* analysis.rs:40-51: the half-edge the curvature walk goes to from current,
\* {} where the loop breaks: the twin of the half-edge before current
CurvatureWalkNext(he, current) == he.edges[he.edges[current].prev].twin

\* types.rs:178-189 (and analysis.rs compute_gaussian_curvature): the
\* half-edge after the twin of current, {} where the loop breaks
ValenceWalkNext(he, current) ==
    {he.edges[t].next : t \in he.edges[current].twin}

WalkNext(he, kind, current) ==
    IF kind = "vertex_valence" THEN ValenceWalkNext(he, current)
    ELSE CurvatureWalkNext(he, current)

InitWalk ==
    /\ pc = "from_mesh"
    /\ \E n \in 1..MaxMeshVertices : mesh \in MeshInputs(n)
    /\ seam = <<>>
    /\ cut_mesh = <<>>
    /\ PipeIdle /\ ValidateIdle /\ SeamIdle /\ CoreIdle
    /\ input_rows = <<>>
    /\ rng_stream = <<>>
    /\ outputs = <<>>
    /\ indices = <<>>
    /\ pattern_len = 0
    /\ energies = <<>>
    /\ row_radii = <<>>
    /\ gauge = 1
    /\ stitch_counts = <<>>
    /\ prev_stitches = 0
    /\ total_stitches = 0
    /\ pattern = <<>>
    /\ result = <<>>

walkOtherVars ==
    <<row_radii, gauge, stitch_counts, prev_stitches, total_stitches, pattern,
      result, annealVars, energyVars, cutVars, pipeVars, validateVars, coreVars>>

\* analysis.rs:14 / types.rs:115: the half-edge mesh is built
FromMesh ==
    /\ pc = "from_mesh"
    /\ half_edge' = from_mesh(mesh)
    /\ pc' = "vertices"
    /\ UNCHANGED <<seam_result, walk, walkOtherVars>>

\* analysis.rs:33-34 / types.rs:172-173: the walk around one vertex that has
\* an outgoing half-edge starts at vertex_to_edge[vertex]
StartWalk ==
    /\ pc = "vertices"
    /\ \E kind \in WalkKinds, v \in 1..Len(mesh.vertices) :
          \E start_edge \in half_edge.vertex_to_edge[v] :
              walk' = [kind |-> kind, vertex |-> v - 1,
                       start_edge |-> start_edge, current |-> start_edge,
                       ring |-> <<>>, done |-> FALSE]
    /\ pc' = "walk"
    /\ UNCHANGED <<half_edge, seam_result, walkOtherVars>>

\* analysis.rs:35-52 / types.rs:174-190: one iteration of the loop
WalkStep ==
    /\ pc = "walk"
    /\ ~walk.done
    /\ Len(walk.ring) < MaxWalkSteps
    /\ LET nxt == WalkNext(half_edge, walk.kind, walk.current)
       IN walk' = [walk EXCEPT
                      !.ring = Append(@, walk.current),
                      !.current = IF nxt = {} THEN @
                                  ELSE CHOOSE x \in nxt : TRUE,
                      !.done = \/ nxt = {}
                               \/ nxt = {walk.start_edge}]
    /\ pc' = "walk"
    /\ UNCHANGED <<half_edge, seam_result, walkOtherVars>>

NextWalk == FromMesh \/ StartWalk \/ WalkStep

SpecWalk == InitWalk /\ [][NextWalk]_vars
---------------------------------------------------------------------------
(* The annealing schedule of optimize_special_stitch_indices
   (src/wasm/crochet-core/src/optimization.rs:96-168), one iteration of the
   loop per step.  The temperature is 0.95 to the power of the number of
   times line 164 has run: anneal_state.cooling_steps is that number. *)

MaxCoolLen == 5
MaxCoolIter == 3

\* optimization.rs:146-148 and 164: how many times an iteration that draws e
\* multiplies the temperature by cooling_rate
CoolingSteps(current, e, pattern_length) ==
    IF Len(Candidate(current, e, pattern_length)) # Len(current) THEN 0
    ELSE 1

InitCool ==
    /\ pc = "anneal_loop"
    /\ \E pattern_length \in 1..MaxCoolLen, staggered \in BOOLEAN :
          \E n \in {k \in 1..MaxSpecials : k <= pattern_length} :
              LET start == InitialPositions(n, pattern_length, staggered)
              IN anneal_state = [pattern_length |-> pattern_length,
                                 current |-> start, best |-> start,
                                 iteration |-> 0, cooling_steps |-> 0]
    /\ sampling = <<>>
    /\ row_mapping = <<>>
    /\ CutIdle /\ PipeIdle /\ ValidateIdle /\ SeamIdle
    /\ input_rows = <<>>
    /\ rng_stream = <<>>
    /\ outputs = <<>>
    /\ indices = <<>>
    /\ pattern_len = 0
    /\ energies = <<>>
    /\ row_radii = <<>>
    /\ gauge = 1
    /\ stitch_counts = <<>>
    /\ prev_stitches = 0
    /\ total_stitches = 0
    /\ pattern = <<>>
    /\ result = <<>>

\* optimization.rs:127-165: one iteration of the loop
AnnealIteration ==
    /\ pc = "anneal_loop"
    /\ anneal_state.iteration < MaxCoolIter
    /\ \E e \in Draws(anneal_state.current, anneal_state.pattern_length) :
          LET st == AnnealStep([current |-> anneal_state.current,
                                best |-> anneal_state.best], e,
                               anneal_state.pattern_length)
          IN anneal_state' =
                 [pattern_length |-> anneal_state.pattern_length,
                  current |-> st.current, best |-> st.best,
                  iteration |-> anneal_state.iteration + 1,
                  cooling_steps |-> anneal_state.cooling_steps
                      + CoolingSteps(anneal_state.current, e,
                                     anneal_state.pattern_length)]
    /\ pc' = "anneal_loop"
    /\ UNCHANGED <<row_radii, gauge, stitch_counts, prev_stitches,
                   total_stitches, pattern, result, annealVars, energyVars,
                   cutVars, pipeVars, validateVars, seamVars, sampling,
                   row_mapping>>

NextCool == AnnealIteration

SpecCool == InitCool /\ [][NextCool]_vars
---------------------------------------------------------------------------
(* sample_profile_curve (src/wasm/crochet-core/src/sampling.rs:79-138).

   The curves of the model are made of straight segments that run up or
   down one vertical line, with control1 and control2 at one and two thirds
   of the way: the speed of such a segment is constant, so its arc length
   is the distance of its end points, adaptive Simpson integration is exact
   on it and the first guess of the Newton iteration is the solution.  A
   point is a pair <<x, y>>; heights are multiples of 12 so that every
   target arc length of up to MaxSamples samples is an integer. *)

MaxSampleSegments == 2
MaxSamples == 4

SampleHeights == {0, 12, 24}

\* SplineSegment of crochet-types, start and end (the control points lie
\* between them)
SampleSegments ==
    {[start |-> <<0, a>>, end |-> <<0, b>>] : a, b \in SampleHeights}

\* ProfileCurve.segments
SampleCurves(n) == [1..n -> SampleSegments]

\* sampling.rs:4-41 segment_arc_length
segment_arc_length(segment) == Abs(segment.end[2] - segment.start[2])

RECURSIVE SumLengths(_, _)
SumLengths(segment_lengths, k) ==
    IF k = 0 THEN 0
    ELSE SumLengths(segment_lengths, k - 1) + segment_lengths[k]

\* sampling.rs:116-125: the first segment with accumulated_length + length
\* >= target_arc_length, and the length accumulated before it; segment 0
\* with all of the length accumulated where there is none
RECURSIVE FindSegment(_, _, _, _)
FindSegment(segment_lengths, target_arc_length, idx, accumulated_length) ==
    IF idx > Len(segment_lengths)
    THEN [segment_idx |-> 1, accumulated_length |-> accumulated_length]
    ELSE IF accumulated_length + segment_lengths[idx] >= target_arc_length
    THEN [segment_idx |-> idx, accumulated_length |-> accumulated_length]
    ELSE FindSegment(segment_lengths, target_arc_length, idx + 1,
                     accumulated_length + segment_lengths[idx])

\* sampling.rs:44-76 and 130: segment.evaluate(find_t_for_arc_length(segment,
\* target_length)), t clamped to [0, 1]
EvaluateAtLength(segment, target_length) ==
    LET length == segment_arc_length(segment)
        along == IF target_length < 0 THEN 0
                 ELSE IF target_length > length THEN length
                 ELSE target_length
    IN IF segment.end[2] >= segment.start[2]
       THEN <<segment.start[1], segment.start[2] + along>>
       ELSE <<segment.start[1], segment.start[2] - along>>

\* sampling.rs:112-132: the sample of index i (0 < i < num_samples - 1)
InnerSample(c, segment_lengths, spacing, i) ==
    LET target_arc_length == i * spacing
        found == FindSegment(segment_lengths, target_arc_length, 1, 0)
    IN EvaluateAtLength(c[found.segment_idx],
                        target_arc_length - found.accumulated_length)

sample_profile_curve(c, num_samples) ==
    IF Len(c) = 0 THEN <<>>
    ELSE IF num_samples = 0 THEN <<>>
    ELSE IF num_samples = 1 THEN <<c[1].start>>
    ELSE LET segment_lengths == [k \in 1..Len(c) |-> segment_arc_length(c[k])]
             total_length == SumLengths(segment_lengths, Len(c))
             spacing == total_length \div (num_samples - 1)
         IN IF total_length = 0 THEN <<c[1].start>>
            ELSE [k \in 1..num_samples |->
                     IF k = 1 THEN c[1].start
                     ELSE IF k = num_samples THEN c[Len(c)].end
                     ELSE InnerSample(c, segment_lengths, spacing, k - 1)]

InitSample ==
    /\ pc = "sample"
    /\ \E n \in 0..MaxSampleSegments :
          \E c \in SampleCurves(n), num_samples \in 0..MaxSamples :
              sampling = [curve |-> c, num_samples |-> num_samples,
                          samples |-> <<>>]
    /\ anneal_state = <<>>
    /\ row_mapping = <<>>
    /\ CutIdle /\ PipeIdle /\ ValidateIdle /\ SeamIdle
    /\ input_rows = <<>>
    /\ rng_stream = <<>>
    /\ outputs = <<>>
    /\ indices = <<>>
    /\ pattern_len = 0
    /\ energies = <<>>
    /\ row_radii = <<>>
    /\ gauge = 1
    /\ stitch_counts = <<>>
    /\ prev_stitches = 0
    /\ total_stitches = 0
    /\ pattern = <<>>
    /\ result = <<>>

SampleProfileCurve ==
    /\ pc = "sample"
    /\ sampling' = [sampling EXCEPT
                       !.samples = sample_profile_curve(sampling.curve,
                                                        sampling.num_samples)]
    /\ pc' = "sampled"
    /\ UNCHANGED <<row_radii, gauge, stitch_counts, prev_stitches,
                   total_stitches, pattern, result, annealVars, energyVars,
                   cutVars, pipeVars, validateVars, seamVars, anneal_state,
                   row_mapping>>

NextSample == SampleProfileCurve

SpecSample == InitSample /\ [][NextSample]_vars
---------------------------------------------------------------------------
(* map_samples_to_rows and find_nearest_sample_by_height
   (src/wasm/crochet-core/src/row_mapping.rs).

   A sample is represented by its height (Point2D.y), in a unit in which the
   row height 1 / gauge_rows_per_cm and the total height are whole numbers.
   Indices are 0-based as in the source. *)

MaxMapSamples == 4
MaxMapHeight == 3
MaxRowHeight == 2
MaxTotalHeight == 3

\* row_mapping.rs:41-51: the insertion point of target_height
RECURSIVE BinarySearch(_, _, _, _)
BinarySearch(samples, target_height, left, right) ==
    IF left >= right THEN left
    ELSE LET mid == left + (right - left) \div 2
         IN IF samples[mid + 1] < target_height
            THEN BinarySearch(samples, target_height, mid + 1, right)
            ELSE BinarySearch(samples, target_height, left, mid)

\* row_mapping.rs:53-68 without the comparison of the two neighbours: the
\* insertion point is returned wherever it is a valid index
NearestOfInsertionPointOnly(samples, target_height, left) ==
    IF left = 0 THEN 0
    ELSE IF left >= Len(samples) THEN Len(samples) - 1
    ELSE left

\* row_mapping.rs:53-68: the nearer of the two neighbours of the insertion
\* point
NearestOfInsertionPoint(samples, target_height, left) ==
    IF left = 0 THEN 0
    ELSE IF left >= Len(samples) THEN Len(samples) - 1
    ELSE LET dist_left == Abs(samples[left] - target_height)
             dist_right == Abs(samples[left + 1] - target_height)
         IN IF dist_left < dist_right THEN left - 1 ELSE left

find_nearest_sample_by_height(samples, target_height) ==
    IF Len(samples) = 0 THEN 0
    ELSE IF Len(samples) = 1 THEN 0
    ELSE NearestOfInsertionPoint(samples, target_height,
             BinarySearch(samples, target_height, 0, Len(samples)))

\* row_mapping.rs:13-14: ceil(total_height_cm / row_height), at least 1
NumRows(total_height, row_height) ==
    Max((total_height + row_height - 1) \div row_height, 1)

map_samples_to_rows(samples, total_height, row_height) ==
    IF Len(samples) = 0 THEN <<>>
    ELSE [row \in 1..NumRows(total_height, row_height) |->
             find_nearest_sample_by_height(samples, (row - 1) * row_height)]

MapSamples(n) == [1..n -> 0..MaxMapHeight]

InitRowMap ==
    /\ pc = "map"
    /\ \E n \in 0..MaxMapSamples :
          \E samples \in MapSamples(n), row_height \in 1..MaxRowHeight,
             total_height \in 1..MaxTotalHeight :
              row_mapping = [samples |-> samples, row_height |-> row_height,
                             total_height |-> total_height,
                             target_height |-> 0, sample_idx |-> 0,
                             row_to_sample |-> <<>>]
    /\ anneal_state = <<>>
    /\ sampling = <<>>
    /\ CutIdle /\ PipeIdle /\ ValidateIdle /\ SeamIdle
    /\ input_rows = <<>>
    /\ rng_stream = <<>>
    /\ outputs = <<>>
    /\ indices = <<>>
    /\ pattern_len = 0
    /\ energies = <<>>
    /\ row_radii = <<>>
    /\ gauge = 1
    /\ stitch_counts = <<>>
    /\ prev_stitches = 0
    /\ total_stitches = 0
    /\ pattern = <<>>
    /\ result = <<>>

rowMapOtherVars ==
    <<row_radii, gauge, stitch_counts, prev_stitches, total_stitches, pattern,
      result, annealVars, energyVars, cutVars, pipeVars, validateVars,
      seamVars, anneal_state, sampling>>

MapSamplesToRows ==
    /\ pc = "map"
    /\ row_mapping' = [row_mapping EXCEPT
                          !.row_to_sample =
                              map_samples_to_rows(row_mapping.samples,
                                                  row_mapping.total_height,
                                                  row_mapping.row_height)]
    /\ pc' = "mapped"
    /\ UNCHANGED rowMapOtherVars

\* a call of find_nearest_sample_by_height with any target height
FindNearestSampleByHeight ==
    /\ pc = "map"
    /\ \E target_height \in (-1)..(MaxMapHeight + 1) :
          row_mapping' = [row_mapping EXCEPT
                             !.target_height = target_height,
                             !.sample_idx = find_nearest_sample_by_height(
                                                row_mapping.samples,
                                                target_height)]
    /\ pc' = "found"
    /\ UNCHANGED rowMapOtherVars

NextRowMap == MapSamplesToRows \/ FindNearestSampleByHeight

SpecRowMap == InitRowMap /\ [][NextRowMap]_vars
---------------------------------------------------------------------------
(* Seam placement (src/wasm/src/parameterization/seam_placement.rs) and the
   part of generate_pattern of bindings.rs that runs it: place_seam and the
   cut (bindings.rs:107-113), then the parameterizer's test of the vertex
   count (lscm.rs:16-22).

   Here a vertex of a MeshData is its position, a point <<x, y>> of the
   plane z = 0.  The positions of the model are the corners of a rhombus
   with diagonals 6 and 8: every distance between two of them is a whole
   number (5, 6 or 8), so that the square root of seam_placement.rs:177 is
   exact, and no three of them lie on a line.  An outcome of place_seam is a
   record whose kind is "ok" (with the seam), "err" or "panic". *)

SeamPositions == {<<3, 0>>, <<-3, 0>>, <<0, 4>>, <<0, -4>>}

\* processing.rs:41-67 remove_degenerate_faces: a face is kept when its
\* indices are distinct and its area, the length of the cross product of
\* two of its sides, is above 1e-10
remove_degenerate_faces(m) ==
    LET Kept(face) ==
            LET v0 == m.vertices[face[1] + 1]
                v1 == m.vertices[face[2] + 1]
                v2 == m.vertices[face[3] + 1]
                cross == (v1[1] - v0[1]) * (v2[2] - v0[2])
                             - (v1[2] - v0[2]) * (v2[1] - v0[1])
            IN /\ face[1] # face[2] /\ face[2] # face[3] /\ face[1] # face[3]
               /\ Abs(cross) > 0
    IN [vertices |-> m.vertices, faces |-> SelectSeq(m.faces, Kept)]

\* the meshes MeshProcessor::process can leave: n positioned vertices and
\* the faces of a mesh of MeshInputs(n) that are not degenerate
SeamMeshInputs(n) ==
    {remove_degenerate_faces([vertices |-> pos, faces |-> m.faces]) :
        m \in MeshInputs(n), pos \in [1..n -> SeamPositions]}

\* the square root of a perfect square
Sqrt(sq) == CHOOSE r \in 0..sq : r * r = sq

\* seam_placement.rs:171-177 edge_cost between vertices v and w (0-based)
EdgeCost(m, v, w) ==
    LET v1 == m.vertices[v + 1]
        v2 == m.vertices[w + 1]
        dx == v2[1] - v1[1]
        dy == v2[2] - v1[2]
    IN Sqrt(dx * dx + dy * dy)

\* seam_placement.rs:77-89: the half-edges met from half-edge start by
\* following next until start comes again
RECURSIVE LoopFrom(_, _, _, _)
LoopFrom(he, start, current, acc) ==
    LET nxt == he.edges[current].next
    IN IF nxt = start THEN Append(acc, current)
       ELSE LoopFrom(he, start, nxt, Append(acc, current))

\* seam_placement.rs:68-98 find_boundary_loops, from half-edge i on
RECURSIVE BoundaryLoops(_, _, _, _)
BoundaryLoops(he, i, visited, boundaries) ==
    IF i > Len(he.edges) THEN boundaries
    ELSE IF he.edges[i].twin = {} /\ i \notin visited
    THEN LET around == LoopFrom(he, i, i, <<>>)
             boundary == [k \in 1..Len(around) |-> he.edges[around[k]].vertex]
         IN BoundaryLoops(he, i + 1, visited \cup Range(around),
                          Append(boundaries, boundary))
    ELSE BoundaryLoops(he, i + 1, visited, boundaries)

find_boundary_loops(he) == BoundaryLoops(he, 1, {}, <<>>)

\* seam_placement.rs:101-109
boundary_to_edges(boundary) ==
    [i \in 1..Len(boundary) |->
        <<boundary[i], boundary[(i % Len(boundary)) + 1]>>]

\* seam_placement.rs:112-137 find_distant_vertices: the first of the sampled
\* pairs with the largest squared distance, (0, 1) where no pair is sampled
\* or all sampled vertices coincide
find_distant_vertices(m) ==
    LET n == Len(m.vertices)
        sample_rate == Min(Max(n \div 20, 10), 100)
        pairs == {p \in (0..(n - 1)) \X (0..(n - 1)) :
                     /\ p[1] % sample_rate = 0
                     /\ p[2] > p[1]
                     /\ (p[2] - p[1]) % sample_rate = 0}
        dist(p) == EdgeCost(m, p[1], p[2]) * EdgeCost(m, p[1], p[2])
        Before(p, q) == p[1] < q[1] \/ (p[1] = q[1] /\ p[2] < q[2])
        best == {p \in pairs :
                    /\ dist(p) > 0
                    /\ \A q \in pairs :
                           /\ dist(q) <= dist(p)
                           /\ (dist(q) = dist(p) /\ q # p) => Before(p, q)}
    IN IF best = {} THEN <<0, 1>> ELSE CHOOSE p \in best : TRUE

\* seam_placement.rs:150-158: the neighbours of vertex in adjacency (the
\* order and the repetitions of the list do not change what the loop of
\* lines 170-186 leaves, since a second visit of a neighbour is no improvement)
Adjacency(m, vertex) ==
    {w \in 0..(Len(m.vertices) - 1) :
        \E f \in 1..Len(m.faces), i \in 1..3 :
            LET v0 == m.faces[f][i]
                v1 == m.faces[f][(i % 3) + 1]
            IN (v0 = vertex /\ v1 = w) \/ (v1 = vertex /\ v0 = w)}

\* mutant of MinNodes: the heap gives its nodes in any order
AnyNodes(heap) == heap

\* seam_placement.rs:20-30 and 160: BinaryHeap::pop with the reversed
\* comparison of PathNode gives a node of least cost, any of them on a tie
MinNodes(heap) == {a \in heap : \A b \in heap : a.cost <= b.cost}

\* seam_placement.rs:169-187: the neighbours of a popped node are relaxed
Relax(st, m, node) ==
    LET Improved(w) ==
            /\ w \in Adjacency(m, node.vertex)
            /\ \A d \in st.distances[w] :
                   node.cost + EdgeCost(m, node.vertex, w) < d
        new_cost(w) == node.cost + EdgeCost(m, node.vertex, w)
    IN [distances |-> [w \in DOMAIN st.distances |->
                          IF Improved(w) THEN {new_cost(w)}
                          ELSE st.distances[w]],
        previous |-> [w \in DOMAIN st.previous |->
                         IF Improved(w) THEN {node.vertex}
                         ELSE st.previous[w]],
        heap |-> (st.heap \ {node})
                     \cup {[vertex |-> w, cost |-> new_cost(w)] :
                              w \in {x \in DOMAIN st.distances : Improved(x)}}]

\* seam_placement.rs:160-188: the loop over the heap; the set of the
\* previous arrays it can end with
RECURSIVE Dijkstra(_, _, _)
Dijkstra(st, m, end) ==
    IF st.heap = {} THEN {st.previous}
    ELSE UNION {
        IF node.vertex = end THEN {st.previous}
        ELSE IF \E d \in st.distances[node.vertex] : node.cost > d
        THEN Dijkstra([st EXCEPT !.heap = @ \ {node}], m, end)
        ELSE Dijkstra(Relax(st, m, node), m, end)
        : node \in MinNodes(st.heap)}

\* seam_placement.rs:194-200: the vertices pushed while walking back from
\* current
RECURSIVE PathBack(_, _, _, _)
PathBack(previous, start, current, path) ==
    IF previous[current] = {} THEN path
    ELSE LET prev == CHOOSE p \in previous[current] : TRUE
         IN IF prev = start THEN Append(path, current)
            ELSE PathBack(previous, start, prev, Append(path, current))

Reverse(s) == [k \in 1..Len(s) |-> s[Len(s) + 1 - k]]

\* seam_placement.rs:140-210 find_shortest_path: indexing distances with
\* start (line 146) or previous with end (line 194) panics when the index is
\* not below the number of vertices
find_shortest_path(m, start, end) ==
    LET n == Len(m.vertices)
        init == [distances |-> [w \in 0..(n - 1) |->
                                   IF w = start THEN {0} ELSE {}],
                 previous |-> [w \in 0..(n - 1) |-> {}],
                 heap |-> {[vertex |-> start, cost |-> 0]}]
    IN IF start >= n \/ end >= n THEN {[kind |-> "panic"]}
       ELSE {LET path == Reverse(Append(PathBack(previous, start, end, <<>>),
                                        start))
             IN IF Len(path) < 2 THEN [kind |-> "err"]
                ELSE [kind |-> "ok", path |-> path]
             : previous \in Dijkstra(init, m, end)}

\* seam_placement.rs:43-65 place_seam: the outcomes it can have
place_seam(m) ==
    LET boundaries == find_boundary_loops(from_mesh(m))
        pair == find_distant_vertices(m)
    IN IF boundaries # <<>>
       THEN {[kind |-> "ok", seam |-> boundary_to_edges(boundaries[1])]}
       ELSE {IF r.kind = "ok"
             THEN [kind |-> "ok",
                   seam |-> [i \in 1..(Len(r.path) - 1) |->
                                <<r.path[i], r.path[i + 1]>>]]
             ELSE r
             : r \in find_shortest_path(m, pair[1], pair[2])}

InitSeam ==
    /\ pc = "place_seam"
    /\ \E n \in 1..MaxMeshVertices : mesh \in SeamMeshInputs(n)
    /\ seam = <<>>
    /\ cut_mesh = <<>>
    /\ PipeIdle /\ ValidateIdle /\ SeamIdle /\ CoreIdle
    /\ input_rows = <<>>
    /\ rng_stream = <<>>
    /\ outputs = <<>>
    /\ indices = <<>>
    /\ pattern_len = 0
    /\ energies = <<>>
    /\ row_radii = <<>>
    /\ gauge = 1
    /\ stitch_counts = <<>>
    /\ prev_stitches = 0
    /\ total_stitches = 0
    /\ pattern = <<>>
    /\ result = <<>>

seamOtherVars ==
    <<row_radii, gauge, stitch_counts, prev_stitches, total_stitches, pattern,
      result, annealVars, energyVars, validateVars, coreVars, walk, executed,
      returned_error, vertex_curvature, stitch_grid, mesh_pattern>>

\* bindings.rs:110-113: place_seam, and the cut when it returns Ok; a panic
\* ends the call of generate_pattern.  cut_mesh is the mesh of line 112 or,
\* without a seam, the mesh as it was
PlaceSeamAndCut ==
    /\ pc = "place_seam"
    /\ \E r \in place_seam(mesh) :
          /\ seam_result' = r
          /\ seam' = IF r.kind = "ok" THEN r.seam ELSE <<>>
          /\ cut_applied' = (r.kind = "ok")
          /\ cut_mesh' = IF r.kind = "ok"
                         THEN apply_topological_cut(mesh, r.seam)
                         ELSE mesh
          /\ pc' = IF r.kind = "panic" THEN "panicked" ELSE "parameterize"
    /\ half_edge' = from_mesh(mesh)
    /\ UNCHANGED <<mesh, mesh_result, seamOtherVars>>

\* bindings.rs:126-141 with lscm.rs:16-22: the parameterizer refuses a mesh
\* of fewer than 3 vertices and generate_pattern returns the failure; what
\* it does with a larger mesh is not followed here
ParameterizeMesh ==
    /\ pc = "parameterize"
    /\ mesh_result' = IF Len(cut_mesh.vertices) < 3
                      THEN FailureResult(ErrorMessage("parameterize"))
                      ELSE mesh_result
    /\ pc' = IF Len(cut_mesh.vertices) < 3 THEN "returned" ELSE "grid"
    /\ UNCHANGED <<mesh, seam, cut_mesh, cut_applied, half_edge, seam_result,
                   seamOtherVars>>

NextSeam == PlaceSeamAndCut \/ ParameterizeMesh

SpecSeam == InitSeam /\ [][NextSeam]_vars






---------------------------------------------------------------------------
(* Claims about the StitchCountSolver (checked under SpecCount) *)

NonIncreasing(s) == \A i \in 2..Len(s) : s[i] <= s[i - 1]

NonDecreasing(s) == \A i \in 2..Len(s) : s[i] >= s[i - 1]

Counted == pc = "counted"

\* C2: every pair of adjacent counts returned by calculate_stitch_counts
\* differs by at most max(6, floor(previous count / 6)).
C2_MaxDelta ==
    Counted =>
        \A i \in 2..Len(stitch_counts) :
            Abs(stitch_counts[i] - stitch_counts[i - 1])
                <= Max(6, stitch_counts[i - 1] \div 6)

\* a decrease that the band of a long row (floor(prev/6) = 7 > 6) clamps
C2_Witness ==
    /\ Counted
    /\ \E i \in 2..Len(stitch_counts) :
        /\ stitch_counts[i - 1] >= 42
        /\ stitch_counts[i] = stitch_counts[i - 1] - stitch_counts[i - 1] \div 6
        /\ IdealStitches(Max(row_radii[i], 1), gauge) < stitch_counts[i]

\* C3: every adjacent pair of counts is realizable by the RowComposer: a row
\* at most doubles, and it loses at most floor(previous count / 2) stitches.
C3_Realizable ==
    Counted =>
        \A i \in 2..Len(stitch_counts) :
            /\ stitch_counts[i] <= 2 * stitch_counts[i - 1]
            /\ stitch_counts[i - 1] - stitch_counts[i]
                   <= stitch_counts[i - 1] \div 2

\* a row that loses exactly floor(prev/2) stitches, and a row that gains 6
C3_Witness ==
    /\ Counted
    /\ \E i \in 2..Len(stitch_counts) :
        /\ stitch_counts[i] < stitch_counts[i - 1]
        /\ stitch_counts[i - 1] - stitch_counts[i] = stitch_counts[i - 1] \div 2
    /\ \E i \in 2..Len(stitch_counts) :
        stitch_counts[i] = stitch_counts[i - 1] + 6

\* C9: for non-increasing radii the counts are non-increasing, never below 6,
\* and no adjacent pair exceeds the max-delta band.
C9_NonIncreasing ==
    (Counted /\ NonIncreasing(row_radii)) =>
        /\ NonIncreasing(stitch_counts)
        /\ \A i \in 1..Len(stitch_counts) : stitch_counts[i] >= 6
        /\ \A i \in 2..Len(stitch_counts) :
               stitch_counts[i - 1] - stitch_counts[i]
                   <= Max(6, stitch_counts[i - 1] \div 6)

\* strictly shrinking radii, a clamped decrease, then the floor of 6
C9_Witness ==
    /\ Counted
    /\ Len(row_radii) = 3
    /\ row_radii[1] > row_radii[2] /\ row_radii[2] > row_radii[3]
    /\ stitch_counts[1] > stitch_counts[2] + 5
    /\ stitch_counts[2] > stitch_counts[3]
    /\ stitch_counts[3] = 6

\* C10 as stated: for non-decreasing radii (any non-negative radii) the
\* counts are non-decreasing.
C10_Original ==
    (Counted /\ NonDecreasing(row_radii)) => NonDecreasing(stitch_counts)

\* C10 amended: for non-decreasing radii whose first radius is at least
\* 0.5 cm the counts are non-decreasing.
C10_NonDecreasing ==
    (Counted /\ NonDecreasing(row_radii) /\ row_radii[1] >= 5) =>
        NonDecreasing(stitch_counts)

\* strictly growing radii from 0.5 cm on, with strictly growing counts
C10_Witness ==
    /\ Counted
    /\ Len(row_radii) = 3
    /\ row_radii[1] >= 5
    /\ row_radii[1] < row_radii[2] /\ row_radii[2] < row_radii[3]
    /\ stitch_counts[1] < stitch_counts[2]
    /\ stitch_counts[2] < stitch_counts[3]

\* C11: calculate_stitch_counts returns one count per radius and every
\* count is at least 6, zero radii included.
C11_MinimumSix ==
    Counted =>
        /\ Len(stitch_counts) = Len(row_radii)
        /\ \A i \in 1..Len(stitch_counts) : stitch_counts[i] >= 6

\* zero radii after a first row of nine: the band alone would allow a count
\* of three, the floor keeps it at six
C11_Witness ==
    /\ Counted
    /\ Len(row_radii) = 3
    /\ \A i \in 1..3 : row_radii[i] = 0
    /\ stitch_counts[1] = 9
    /\ SaturatingSub(stitch_counts[1], Max(stitch_counts[1] \div 6, 6)) < 6
    /\ stitch_counts[2] = 6
    /\ stitch_counts[3] = 6

---------------------------------------------------------------------------
(* Claims about the RowComposer (checked under SpecCompose) *)

Composed == pc = "composed"

\* number of instructions of kind t among the first n instructions of pat
CountType(pat, t, n) ==
    Cardinality({k \in 1..n : pat[k].stitch_type = t})

\* stitches of the previous row an instruction works into, as the claims
\* state them: SC 1, INC 1, DEC and INVDEC 2
ConsumedBy(t) == IF t \in {"DEC", "INVDEC"} THEN 2 ELSE 1

\* stitches an instruction leaves in the new row: SC 1, INC 2, DEC and INVDEC 1
ProducedBy(t) == IF t = "INC" THEN 2 ELSE 1

RECURSIVE SumConsumed(_, _)
SumConsumed(pat, n) ==
    IF n = 0 THEN 0 ELSE SumConsumed(pat, n - 1) + ConsumedBy(pat[n].stitch_type)

RECURSIVE SumProduced(_, _)
SumProduced(pat, n) ==
    IF n = 0 THEN 0 ELSE SumProduced(pat, n - 1) + ProducedBy(pat[n].stitch_type)

\* k = ceil(a / b) for b > 0
IsCeil(k, a, b) == k * b >= a /\ (k - 1) * b < a

\* C4: increase case 0 < delta <= prev: exactly prev instructions, each INC
\* or SC, the INC among instructions 0..i number ceil((i+1)*delta/prev) for
\* every i; hence delta INC and prev - delta SC, consuming prev and
\* producing total stitches.
C4_IncreasePlacement ==
    LET delta == total_stitches - prev_stitches
    IN (Composed /\ 0 < delta /\ delta <= prev_stitches) =>
        /\ Len(pattern) = prev_stitches
        /\ \A k \in 1..Len(pattern) : pattern[k].stitch_type \in {"INC", "SC"}
        /\ \A i \in 0..(prev_stitches - 1) :
               IsCeil(CountType(pattern, "INC", i + 1), (i + 1) * delta,
                      prev_stitches)
        /\ CountType(pattern, "INC", Len(pattern)) = delta
        /\ CountType(pattern, "SC", Len(pattern)) = prev_stitches - delta
        /\ SumConsumed(pattern, Len(pattern)) = prev_stitches
        /\ SumProduced(pattern, Len(pattern)) = total_stitches

\* the scenario prev = 12, target = 18, composed with some INC and some SC
C4_Witness ==
    /\ Composed
    /\ prev_stitches = 12 /\ total_stitches = 18
    /\ CountType(pattern, "INC", Len(pattern)) = 6
    /\ CountType(pattern, "SC", Len(pattern)) = 6

\* C5: decrease case 0 < D <= floor(prev/2): exactly D INVDEC and
\* prev - 2*D SC and nothing else, consuming prev and producing total
\* stitches: no scheduled decrease is lost to the guard i + 1 < prev.
C5_DecreaseCount ==
    LET D == prev_stitches - total_stitches
    IN (Composed /\ 0 < D /\ D <= prev_stitches \div 2) =>
        /\ CountType(pattern, "INVDEC", Len(pattern)) = D
        /\ CountType(pattern, "SC", Len(pattern)) = prev_stitches - 2 * D
        /\ Len(pattern) = prev_stitches - D
        /\ SumConsumed(pattern, Len(pattern)) = prev_stitches
        /\ SumProduced(pattern, Len(pattern)) = total_stitches

\* the scenario prev = 18, target = 12, whose last instruction is an SC
\* worked into the last stitch (index 17) of the previous row
C5_Witness ==
    /\ Composed
    /\ prev_stitches = 18 /\ total_stitches = 12
    /\ CountType(pattern, "INVDEC", Len(pattern)) = 6
    /\ pattern[Len(pattern)].stitch_index = 17

\* a pair of counts the StitchCountSolver can emit for adjacent rows, which
\* is what generate_pattern calls the RowComposer with
SolverPair(prev, total) ==
    /\ prev >= 6
    /\ total >= 6
    /\ Abs(total - prev) <= Max(6, prev \div 6)

---------------------------------------------------------------------------
(* Claims about generate_pattern (checked under Spec) *)

Done == pc = "done"

OnlySC(pat) == \A k \in 1..Len(pat) : pat[k].stitch_type = "SC"

ConstantRadii == \A i \in 1..Len(row_radii) : row_radii[i] = row_radii[1]

\* C1: when generate_pattern returns Ok, every returned row after the first
\* consumes exactly the previous row's total_stitches and produces exactly
\* its own total_stitches; a result that is not Ok carries no rows.
C1_RowsConsistent ==
    Done =>
        /\ result.ok =>
            \A idx \in 2..Len(result.rows) :
                LET row == result.rows[idx]
                IN /\ SumConsumed(row.pattern, Len(row.pattern)) =
                          result.rows[idx - 1].total_stitches
                   /\ SumProduced(row.pattern, Len(row.pattern)) =
                          row.total_stitches
        /\ ~result.ok => result.rows = <<>>

\* an Ok pattern whose second row changes the stitch count and whose special
\* stitches were moved by the placement optimization
C1_Witness ==
    /\ Done
    /\ result.ok
    /\ Len(result.rows) = 2
    /\ result.rows[2].total_stitches # result.rows[1].total_stitches
    /\ ~OnlySC(result.rows[2].pattern)
    /\ result.rows[2].pattern #
           generate_row_pattern(result.rows[1].total_stitches,
                                result.rows[2].total_stitches)

C8_Original ==
    (Done /\ result.ok /\ ConstantRadii) =>
        \A idx \in 2..Len(result.rows) :
            /\ result.rows[idx].total_stitches = result.rows[1].total_stitches
            /\ OnlySC(result.rows[idx].pattern)

\* C8 amended: a cylinder profile of radius at least 0.5 cm gives rows of
\* identical stitch count, all SC after row 1.
C8_Cylinder ==
    (Done /\ result.ok /\ ConstantRadii /\ row_radii[1] >= 5) =>
        \A idx \in 2..Len(result.rows) :
            /\ result.rows[idx].total_stitches = result.rows[1].total_stitches
            /\ OnlySC(result.rows[idx].pattern)
            /\ Len(result.rows[idx].pattern) = result.rows[1].total_stitches

\* a cylinder of radius 0.6 cm at gauge 3 has been generated: two rows of
\* eleven stitches
C8_Witness ==
    /\ Done
    /\ result.ok
    /\ ConstantRadii
    /\ row_radii[1] = 6
    /\ gauge = 3
    /\ Len(result.rows) = 2
    /\ result.rows[2].total_stitches = 11
    /\ result.rows[1].total_stitches = result.rows[2].total_stitches

---------------------------------------------------------------------------
(* Claims about optimize_stitch_placement (checked under SpecAnneal) *)

\* C12: every call of optimize_stitch_placement returns one row per input
\* row; each returned row keeps row_number, total_stitches, the pattern
\* length and the number of instructions of every stitch type, its
\* instructions are indexed 0..length-1, and a row without special stitches
\* is returned as it was.
C12_FramePreserved ==
    \A c \in 1..Len(outputs) :
        /\ Len(outputs[c]) = Len(input_rows)
        /\ \A idx \in 1..Len(input_rows) :
            LET old == input_rows[idx]
                new == outputs[c][idx]
            IN /\ new.row_number = old.row_number
               /\ new.total_stitches = old.total_stitches
               /\ Len(new.pattern) = Len(old.pattern)
               /\ \A t \in StitchTypes :
                      CountType(new.pattern, t, Len(new.pattern)) =
                          CountType(old.pattern, t, Len(old.pattern))
               /\ \A k \in 1..Len(new.pattern) : new.pattern[k].stitch_index = k - 1
               /\ OnlySC(old.pattern) => new = old

\* a row holding an INC and an INVDEC came back with its special stitches on
\* other indices, after an iteration whose candidate became best
C12_Witness ==
    /\ Len(outputs) >= 1
    /\ \E idx \in 1..Len(input_rows) :
        /\ CountType(input_rows[idx].pattern, "INC", Len(input_rows[idx].pattern)) = 1
        /\ CountType(input_rows[idx].pattern, "INVDEC", Len(input_rows[idx].pattern)) = 1
        /\ outputs[1][idx].pattern # input_rows[idx].pattern
    /\ \E k \in 1..Len(rng_stream) :
        /\ rng_stream[k].outcome = "best"
        /\ rng_stream[k].delta # 0

\* C13: every call of optimize_stitch_placement on the same rows returns the
\* same rows as the calls before it.
C13_Deterministic ==
    \A c, d \in 1..Len(outputs) : outputs[c] = outputs[d]

\* two calls were made on rows that both hold a special stitch, the
\* generator moved one of them, and the second call returned what the first
\* returned
C13_Witness ==
    /\ Len(outputs) = 2
    /\ Len(input_rows) = 2
    /\ Len(rng_stream) = 2 * MaxAnnealIter
    /\ \E k \in 1..Len(rng_stream) :
        /\ rng_stream[k].outcome = "best"
        /\ rng_stream[k].delta # 0
    /\ outputs[1] # input_rows
    /\ outputs[2] = outputs[1]

---------------------------------------------------------------------------
(* Claims about index_energy (checked under SpecEnergy) *)

\* made of runs of at least two consecutive indices: every index has a
\* neighbour in the arrangement
Clustered(ix, length) ==
    \A k \in 1..Len(ix) :
        \E h \in 1..Len(ix) :
            h # k /\ circular_distance(ix[k], ix[h], length) = 1

\* C14: with no special stitch in the previous row, the evenly spaced
\* arrangement of n >= 2 positions (n divides L, L/n >= 2) has strictly lower
\* index_energy than every clustered arrangement of n positions.
C14_EvenBeatsClustered ==
    (/\ pc = "energy_done"
     /\ Len(indices) >= 2
     /\ pattern_len % Len(indices) = 0
     /\ Clustered(indices, pattern_len)) =>
        LowerEnergy(energies.even, energies.given)

\* two runs against five evenly spaced positions in a row of ten
C14_Witness ==
    /\ pc = "energy_done"
    /\ pattern_len = 10
    /\ indices = <<0, 1, 2, 5, 6>>
    /\ Clustered(indices, pattern_len)
    /\ energies.even > energies.given

---------------------------------------------------------------------------
(* Claims about the topological cut (checked under SpecCut) *)

CutDone == pc = "cut_done"

SeamVertices(sm) == {sm[k][1] : k \in 1..Len(sm)} \cup {sm[k][2] : k \in 1..Len(sm)}

\* C16: the cut keeps the number of faces, adds exactly one vertex per
\* distinct seam vertex, and leaves every face index below the new vertex
\* count.
C16_CutCounts ==
    CutDone =>
        /\ Len(cut_mesh.faces) = Len(mesh.faces)
        /\ Len(cut_mesh.vertices) =
               Len(mesh.vertices) + Cardinality(SeamVertices(seam))
        /\ \A f \in 1..Len(cut_mesh.faces) : \A k \in 1..3 :
               cut_mesh.faces[f][k] < Len(cut_mesh.vertices)

\* a seam of two edges that share a vertex has cut a mesh of four faces
C16_Witness ==
    /\ CutDone
    /\ Len(mesh.faces) = 4
    /\ Len(seam) = 2
    /\ seam[1][2] = seam[2][1]
    /\ Cardinality(SeamVertices(seam)) = 3
    /\ Len(cut_mesh.vertices) = Len(mesh.vertices) + 3
    /\ cut_mesh.faces # mesh.faces

\* every vertex is used and every half-edge has a twin that points back
ClosedManifold(m) ==
    LET he == from_mesh(m)
    IN /\ Len(m.faces) > 0
       /\ \A v \in 1..Len(m.vertices) : he.vertex_to_edge[v] # {}
       /\ \A e \in 1..Len(he.edges) :
              /\ he.edges[e].twin # {}
              /\ \A t \in he.edges[e].twin : he.edges[t].twin = {e}

\* the seam is a path along edges of the mesh, as place_seam returns it
SeamPath(m, sm) ==
    /\ Len(sm) > 0
    /\ Cardinality(SeamVertices(sm)) = Len(sm) + 1
    /\ \A k \in 1..(Len(sm) - 1) : sm[k][2] = sm[k + 1][1]
    /\ \A k \in 1..Len(sm) : \E f \in 1..Len(m.faces) :
           {sm[k][1], sm[k][2]} \subseteq Range(m.faces[f])

\* the half-edges without a twin whose two ends are copies of seam vertices
SeamBoundaryEdges(m, sm) ==
    LET he == from_mesh(m)
    IN {e \in 1..Len(he.edges) :
           /\ he.edges[e].twin = {}
           /\ m.vertices[he.edges[e].vertex + 1] \in SeamVertices(sm)
           /\ m.vertices[he.edges[he.edges[e].next].vertex + 1]
                  \in SeamVertices(sm)}

Referenced(m, v_idx) == \E f \in 1..Len(m.faces) : v_idx \in Range(m.faces[f])

\* C17: the cut of a closed manifold mesh along a seam path opens the mesh:
\* the result has boundary half-edges along the seam, and every seam vertex
\* and every duplicate is still referenced by a face (one side of the seam
\* keeps the originals, the other side uses the duplicates).
C17_OpenedAlongSeam ==
    (CutDone /\ ClosedManifold(mesh) /\ SeamPath(mesh, seam)) =>
        /\ SeamBoundaryEdges(cut_mesh, seam) # {}
        /\ \A v \in SeamVertices(seam) : Referenced(cut_mesh, v)
        /\ \A d \in Len(mesh.vertices)..(Len(cut_mesh.vertices) - 1) :
               Referenced(cut_mesh, d)

---------------------------------------------------------------------------
(* Claims about the mesh pipeline (checked under SpecMesh) *)

MeshDone == pc = "mesh_done"

MeshSucceeded == MeshDone /\ mesh_result.is_ok /\ mesh_result.value.success

MeshFailedWith(msg) ==
    /\ MeshDone
    /\ mesh_result.is_ok
    /\ ~mesh_result.value.success
    /\ mesh_result.value.pattern = {}
    /\ mesh_result.value.error = {msg}

RECURSIVE GroupsConsumed(_, _)
GroupsConsumed(groups, k) ==
    IF k > Len(groups) THEN 0
    ELSE groups[k].count * (IF groups[k].stitch_type = "Decrease" THEN 2 ELSE 1)
         + GroupsConsumed(groups, k + 1)

RECURSIVE GroupsProduced(_, _)
GroupsProduced(groups, k) ==
    IF k > Len(groups) THEN 0
    ELSE groups[k].count * (IF groups[k].stitch_type = "Increase" THEN 2 ELSE 1)
         + GroupsProduced(groups, k + 1)

MeshRows == UnwrapOr(mesh_result.value.pattern, <<>>).instructions.rows

\* C15: in a pattern returned by the mesh pipeline every row after the first
\* consumes the previous row's total_stitches and produces its own
\* total_stitches.
C15_MeshRowsConsistent ==
    MeshSucceeded =>
        \A k \in 2..Len(MeshRows) :
            /\ GroupsConsumed(MeshRows[k].stitches, 1) =
                   MeshRows[k - 1].total_stitches
            /\ GroupsProduced(MeshRows[k].stitches, 1) =
                   MeshRows[k].total_stitches

\* C20 as stated: the stages run in the fixed order, a stage that returned
\* an error is the last stage executed, and the result then reports failure
\* (success = false, an error, no pattern).
C20_HaltsOnFirstError ==
    /\ \A k \in 1..Len(executed) : executed[k] = Stages[k]
    /\ \A k \in 1..Len(returned_error) :
           /\ returned_error[k] = executed[Len(executed)]
           /\ MeshFailedWith(ErrorMessage(returned_error[k]))

\* C20, amended: the stages run in the fixed order; an error of load,
\* preprocess, parameterization, stitch grid, pattern optimization or
\* instruction generation halts the pipeline with a failure result; an error
\* of seam placement only skips the cut and an error of the curvature
\* analysis is only logged, the next stage runs in both cases.
C20_HaltsOnFatalError ==
    /\ \A k \in 1..Len(executed) : executed[k] = Stages[k]
    /\ \A k \in 1..Len(returned_error) :
           returned_error[k] \in {"load", "process", "parameterize", "grid",
                                  "optimize", "instructions"} =>
               /\ returned_error[k] = executed[Len(executed)]
               /\ MeshFailedWith(ErrorMessage(returned_error[k]))
    /\ "seam" \in Range(returned_error) =>
           /\ ~cut_applied
           /\ pc = "curvature" \/ "curvature" \in Range(executed)
    /\ "curvature" \in Range(returned_error) =>
           pc = "parameterize" \/ "parameterize" \in Range(executed)
    /\ MeshSucceeded =>
           /\ executed = Stages
           /\ Range(returned_error) \subseteq {"seam", "curvature"}

\* seam placement failed, the pipeline went on without the cut, and the
\* parameterization's error then halted it
C20_Witness ==
    /\ MeshDone
    /\ returned_error = <<"seam", "parameterize">>
    /\ executed = <<"load", "process", "seam", "curvature", "parameterize">>
    /\ ~cut_applied
    /\ MeshFailedWith("Parameterization failed")

---------------------------------------------------------------------------
(* Claims about input validation (checked under SpecValidate) *)

NonPositiveConfig ==
    \/ config.total_height_cm <= 0
    \/ config.yarn.gauge_stitches_per_cm <= 0
    \/ config.yarn.gauge_rows_per_cm <= 0
    \/ config.yarn.recommended_hook_size_mm <= 0

\* C18: a configuration with a zero or negative height, gauge or hook size
\* is rejected by the core generate_pattern (given a valid curve) with
\* InvalidConfiguration, and by the boundary validate_config.
C18_RejectsNonPositive ==
    /\ (pc = "core_done" /\ validate_curve(curve).is_ok /\ NonPositiveConfig) =>
           /\ ~core_result.is_ok
           /\ core_result.error.kind = "InvalidConfiguration"
    /\ (pc = "boundary_done" /\ NonPositiveConfig) => ~boundary_result.is_ok

EmptyCurve == Len(curve.segments) = 0

GapSquared(i) ==
    (curve.segments[i - 1].end[1] - curve.segments[i].start[1])
        * (curve.segments[i - 1].end[1] - curve.segments[i].start[1])
    + (curve.segments[i - 1].end[2] - curve.segments[i].start[2])
        * (curve.segments[i - 1].end[2] - curve.segments[i].start[2])

\* C19: generate_pattern returns InvalidProfileCurve (no pattern, and no
\* out-of-bounds panic) when the curve has no segments or when a segment
\* starts more than 1e-6 away from the end of the previous one.
C19_InvalidCurveRejected ==
    (pc = "core_done"
     /\ (EmptyCurve \/ \E i \in 2..Len(curve.segments) : GapSquared(i) > 100)) =>
        /\ ~core_result.is_ok
        /\ core_result.error.kind = "InvalidProfileCurve"

\* a curve of two segments 1.1e-6 apart, valid otherwise, was rejected for
\* the gap
C19_Witness ==
    /\ pc = "core_done"
    /\ Len(curve.segments) = 2
    /\ GapSquared(2) = 121
    /\ curve.start_radius = 0
    /\ curve.end_radius = 0
    /\ ~NonPositiveConfig
    /\ core_result =
           PatternErr("InvalidProfileCurve", "Curve segments are not continuous")

\* the stitch kinds of the stitches of row number n, in the order of their ids
RECURSIVE RowKinds(_, _, _)
RowKinds(stitches, n, k) ==
    IF k > Len(stitches) THEN <<>>
    ELSE (IF stitches[k].row = n - 1 THEN <<stitches[k].stitch_type>> ELSE <<>>)
         \o RowKinds(stitches, n, k + 1)

\* the stitch kinds a group list stands for
RECURSIVE ExpandGroups(_, _)
ExpandGroups(groups, k) ==
    IF k > Len(groups) THEN <<>>
    ELSE [i \in 1..groups[k].count |-> groups[k].stitch_type]
         \o ExpandGroups(groups, k + 1)

RECURSIVE SumRowTotals(_, _)
SumRowTotals(rws, k) ==
    IF k > Len(rws) THEN 0 ELSE rws[k].total_stitches + SumRowTotals(rws, k + 1)

MeshPattern == UnwrapOr(mesh_result.value.pattern, <<>>)

\* C30: in the pattern the mesh pipeline returns, the groups of a row are the
\* maximal runs of equal stitch kind in row order: counts are at least 1,
\* adjacent groups differ in kind, the groups spell the row's stitches and
\* their counts sum to total_stitches; rows are numbered 1, 2, ...; the
\* metadata stitch_count is the sum of the rows' total_stitches.
C30_MaximalRuns ==
    MeshSucceeded =>
        /\ \A n \in 1..Len(MeshRows) :
               LET groups == MeshRows[n].stitches
               IN /\ MeshRows[n].number = n
                  /\ \A g \in 1..Len(groups) : groups[g].count >= 1
                  /\ \A g \in 2..Len(groups) :
                         groups[g].stitch_type # groups[g - 1].stitch_type
                  /\ ExpandGroups(groups, 1) =
                         RowKinds(MeshPattern.stitches, n, 1)
                  /\ Len(ExpandGroups(groups, 1)) = MeshRows[n].total_stitches
        /\ MeshPattern.metadata.stitch_count = SumRowTotals(MeshRows, 1)
        /\ MeshPattern.metadata.row_count = Len(MeshRows)

\* a pattern of three rows, the middle one of 5 stitches in two groups
C30_Witness ==
    /\ MeshSucceeded
    /\ Len(MeshRows) = 3
    /\ MeshRows[2].total_stitches = 5
    /\ Len(MeshRows[2].stitches) = 2
    /\ MeshRows[2].stitches[1].count = 2
    /\ MeshRows[2].stitches[2].count = 3
    /\ MeshPattern.metadata.stitch_count = 17

---------------------------------------------------------------------------
(* Claims about the half-edge mesh and the one-ring walks (checked under
   SpecWalk) *)

HalfEdgeBuilt == pc # "from_mesh" /\ half_edge # <<>>

Origin(he, e) == he.edges[e].vertex

\* C26: in the half-edge mesh from_mesh builds, whenever twin(e) = t, then
\* twin(t) = e, t starts where e ends and t ends where e starts.
C26_TwinsSymmetric ==
    HalfEdgeBuilt =>
        \A e \in 1..Len(half_edge.edges) :
            \A t \in half_edge.edges[e].twin :
                /\ half_edge.edges[t].twin = {e}
                /\ Origin(half_edge, t)
                       = Origin(half_edge, half_edge.edges[e].next)
                /\ Origin(half_edge, half_edge.edges[t].next)
                       = Origin(half_edge, e)

NoRepeat(s) == \A i, j \in 1..Len(s) : s[i] = s[j] => i = j

\* C27: a one-ring walk of the curvature stage is never at one half-edge in
\* two of its iterations, so it ends after at most one iteration per half-edge.
C27_WalkVisitsOnce ==
    pc = "walk" => NoRepeat(walk.ring)

---------------------------------------------------------------------------
(* Claims about the annealing schedule (checked under SpecCool) *)

\* C28: the temperature has been multiplied by 0.95 once for every iteration
\* of the annealing loop that has run, collisions included, so that it is
\* 0.95^k after k iterations.
C28_CoolsEveryIteration ==
    anneal_state # <<>> =>
        anneal_state.cooling_steps = anneal_state.iteration

---------------------------------------------------------------------------
(* Claims about sample_profile_curve (checked under SpecSample) *)

Sampled == pc = "sampled"

\* C23: for a non-empty curve and num_samples >= 2, sample_profile_curve
\* returns num_samples points, the first the start of the first segment and
\* the last the end of the last segment; for an empty curve it returns no
\* point.
C23_SampleCountAndEndpoints ==
    Sampled =>
        LET c == sampling.curve
            samples == sampling.samples
        IN /\ Len(c) = 0 => samples = <<>>
           /\ (Len(c) > 0 /\ sampling.num_samples >= 2) =>
                  /\ Len(samples) = sampling.num_samples
                  /\ samples[1] = c[1].start
                  /\ samples[Len(samples)] = c[Len(c)].end

---------------------------------------------------------------------------
(* Claims about the row mapping (checked under SpecRowMap) *)

\* idx is a 0-based index of samples whose height is as near to
\* target_height as any
IsNearest(samples, target_height, idx) ==
    /\ idx \in 0..(Len(samples) - 1)
    /\ \A k \in 1..Len(samples) :
           Abs(samples[idx + 1] - target_height)
               <= Abs(samples[k] - target_height)

---------------------------------------------------------------------------
(* Claims about seam placement (checked under SpecSeam) *)

SeamPlaced == pc # "place_seam" /\ seam_result # <<>>

BoundaryHalfEdges(he) == {e \in 1..Len(he.edges) : he.edges[e].twin = {}}

Destination(he, e) == he.edges[he.edges[e].next].vertex

\* the boundary half-edges that start where boundary half-edge e ends
BoundarySuccessors(he, e) ==
    {d \in BoundaryHalfEdges(he) : he.edges[d].vertex = Destination(he, e)}

\* every boundary half-edge is followed by exactly one boundary half-edge
SimpleBoundary(he) ==
    \A e \in BoundaryHalfEdges(he) :
        Cardinality(BoundarySuccessors(he, e)) = 1

\* the number of edges of the boundary loop through boundary half-edge start
RECURSIVE BoundaryLoopLength(_, _, _, _)
BoundaryLoopLength(he, start, current, k) ==
    LET nxt == CHOOSE d \in BoundarySuccessors(he, current) : TRUE
    IN IF nxt = start \/ k >= Len(he.edges) THEN k
       ELSE BoundaryLoopLength(he, start, nxt, k + 1)

IsChain(s) == \A i \in 1..(Len(s) - 1) : s[i][2] = s[i + 1][1]

\* C24: when the mesh has boundary half-edges, place_seam returns Ok with a
\* seam whose edges are all boundary edges (half-edges without a twin) and
\* form one closed loop, and no boundary loop of the mesh has more edges.
C24_LongestBoundaryLoop ==
    (SeamPlaced /\ BoundaryHalfEdges(half_edge) # {}) =>
        /\ seam_result.kind = "ok"
        /\ Len(seam_result.seam) > 0
        /\ \A i \in 1..Len(seam_result.seam) :
               \E e \in BoundaryHalfEdges(half_edge) :
                   /\ half_edge.edges[e].vertex = seam_result.seam[i][1]
                   /\ Destination(half_edge, e) = seam_result.seam[i][2]
        /\ IsChain(seam_result.seam)
        /\ seam_result.seam[Len(seam_result.seam)][2] = seam_result.seam[1][1]
        /\ SimpleBoundary(half_edge) =>
               \A e \in BoundaryHalfEdges(half_edge) :
                   BoundaryLoopLength(half_edge, e, e, 1)
                       <= Len(seam_result.seam)

\* the paths of distinct vertices from start to end along edges of faces
SimplePaths(m, start, end) ==
    LET n == Len(m.vertices)
    IN UNION {{p \in [1..len -> 0..(n - 1)] :
                  /\ p[1] = start
                  /\ p[len] = end
                  /\ NoRepeat(p)
                  /\ \A i \in 1..(len - 1) : p[i + 1] \in Adjacency(m, p[i])} :
                 len \in 2..n}

RECURSIVE PathCost(_, _, _)
PathCost(m, p, k) ==
    IF k <= 1 THEN 0
    ELSE PathCost(m, p, k - 1) + EdgeCost(m, p[k - 1], p[k])

\* the vertices a chain of edges goes through
ChainVertices(s) ==
    [k \in 1..(Len(s) + 1) |-> IF k = 1 THEN s[1][1] ELSE s[k - 1][2]]

ClosedAndConnected ==
    /\ SeamPlaced
    /\ BoundaryHalfEdges(half_edge) = {}
    /\ SimplePaths(mesh, find_distant_vertices(mesh)[1],
                   find_distant_vertices(mesh)[2]) # {}

\* C25: on a closed mesh whose selected start and end vertices are
\* connected, place_seam returns a chain of edges from start to end that
\* repeats no vertex, runs along edges of faces, and has the least total
\* edge weight of all start-end paths.
C25_ShortestPathSeam ==
    ClosedAndConnected =>
        LET start == find_distant_vertices(mesh)[1]
            end == find_distant_vertices(mesh)[2]
        IN /\ seam_result.kind = "ok"
           /\ Len(seam_result.seam) >= 1
           /\ IsChain(seam_result.seam)
           /\ LET path == ChainVertices(seam_result.seam)
              IN /\ path \in SimplePaths(mesh, start, end)
                 /\ \A q \in SimplePaths(mesh, start, end) :
                        PathCost(mesh, path, Len(path))
                            <= PathCost(mesh, q, Len(q))

\* a closed mesh in which the way over one neighbour is shorter than the way
\* over the other, and the seam takes it
C25_Witness ==
    /\ ClosedAndConnected
    /\ Len(seam_result.seam) = 2
    /\ \E q \in SimplePaths(mesh, 0, 1) :
           /\ Len(q) = 3
           /\ PathCost(mesh, q, Len(q))
                  > PathCost(mesh, ChainVertices(seam_result.seam), 3)

\* C22: on a mesh without boundary half-edges whose selected vertices are
\* joined by no path, place_seam returns an error (no panic, no Ok).
C22_NoPathIsAnError ==
    (SeamPlaced /\ BoundaryHalfEdges(half_edge) = {}
         /\ SimplePaths(mesh, find_distant_vertices(mesh)[1],
                        find_distant_vertices(mesh)[2]) = {}) =>
        seam_result.kind = "err"

\* C21: generate_pattern on a mesh of fewer than 3 vertices gets through
\* seam placement and the cut without a panic and returns the
\* parameterization failure.
C21_SmallMeshFailsInParameterizer ==
    (Len(mesh.vertices) < 3 /\ pc \notin {"place_seam", "parameterize"}) =>
        /\ pc = "returned"
        /\ seam_result.kind # "panic"
        /\ mesh_result = FailureResult(ErrorMessage("parameterize"))

===========================================================================
